---- MODULE Spec2Model ----
(***************************************************************************)
(* EntropyOS tick-advancement engine: the persisted rows (simulations,     *)
(* agents, events, metric snapshots), the HTTP operations that change      *)
(* them, and the advance_tick handler as a sequence of steps, one per      *)
(* unit of work that the code commits on its own.                          *)
(*                                                                         *)
(* Money and sentiment are floats in the code.  Incomes and amounts are    *)
(* modelled as integers, sentiment in tenths (5 stands for 0.5).           *)
(*                                                                         *)
(* Persistence boundary: a query or commit that fails raises and leaves    *)
(* the persisted rows as they were.  The request's one Session then        *)
(* refuses every further database operation until Session.rollback() is    *)
(* called (SQLAlchemy's inactive transaction), which discards the          *)
(* session's uncommitted changes.                                          *)
(***************************************************************************)
EXTENDS Integers, Sequences, FiniteSets, TLC

\* ---------------------------------------------------------------- bounds
MaxRequests == 2
MaxOps == 1
\* Calls of add_long_term_memory in a run of MemorySpec.
MaxMemoryCalls == 3

\* ------------------------------------------------------ program constants
EventLimit == 100
AgentLimit == 10000
DefaultSentiment == 5
EMBEDDING_DIM == 768
\* The upper end of the range of a belief or trait scalar, 1.0 in tenths.
ScalarMax == 10
MaxStmDecisions == 10

\* ------------------------------------------------------------ input sets
SimIds == {1, 2}
NoTick == -1
EventStatuses == {"pending", "triggered", "processed", "failed"}
StatusInputs == {"running"}
SeedInputs == {<<50>>}

\* The kinds of value a JSON parameter mapping can hold under amount_per_agent
\* and duration_ticks: a number, a numeric string, other text, or no key.
Num(v) == [kind |-> "num", val |-> v]
NumStr(v) == [kind |-> "numstr", val |-> v]
Text == [kind |-> "text", val |-> 0]
Missing == [kind |-> "missing", val |-> 0]

\* The other values of a JSON document: a string, null, an object (a mapping
\* from its keys to values; <<>> is the empty mapping).
Str(s) == [kind |-> "str", val |-> s]
Null == [kind |-> "null", val |-> 0]
Obj(f) == [kind |-> "obj", val |-> f]

\* schemas/llm.py, LLMDecision: action is required, dialogue defaults to None,
\* sentiment_shift to 0.0, policy_opinion_shift to {} and
\* spending_ratio_shift to None.
LLMDecision(action, sentiment_shift) ==
    [action |-> action, dialogue |-> Null, sentiment_shift |-> sentiment_shift,
     policy_opinion_shift |-> <<>>, spending_ratio_shift |-> Null]

\* LLMDecision(action="observe_failed_llm", dialogue="LLM processing error."),
\* the decision used when the oracle call or the parsing of its answer fails.
FallbackDecision ==
    [LLMDecision("observe_failed_llm", 0) EXCEPT !.dialogue = Str("LLM processing error.")]

UBI100 == [amount_per_agent |-> Num(100), duration_ticks |-> Missing]

ParamInputs ==
    { UBI100,
      [amount_per_agent |-> Num(0), duration_ticks |-> Missing],
      [amount_per_agent |-> Num(-5), duration_ticks |-> Missing],
      [amount_per_agent |-> Missing, duration_ticks |-> Missing],
      [amount_per_agent |-> Text, duration_ticks |-> Missing],
      [amount_per_agent |-> NumStr(100), duration_ticks |-> Missing],
      [amount_per_agent |-> Num(100), duration_ticks |-> Num(3)],
      [amount_per_agent |-> Num(100), duration_ticks |-> Num(0)] }

NoParams == [amount_per_agent |-> Missing, duration_ticks |-> Missing]

\* What POST /simulations/{id}/events accepts (EventCreate): any event_type,
\* any parameters, target_tick absent or >= 0, any of the four statuses.
EventInputs ==
    { [event_type |-> "ubi", parameters |-> p, target_tick |-> 0, status |-> "pending"] :
          p \in ParamInputs }
    \cup { [event_type |-> "ubi", parameters |-> UBI100, target_tick |-> t, status |-> "pending"] :
          t \in {1, NoTick} }
    \cup { [event_type |-> "ubi", parameters |-> UBI100, target_tick |-> 0, status |-> st] :
          st \in {"triggered", "processed", "failed"} }
    \cup { [event_type |-> "market_shock", parameters |-> NoParams, target_tick |-> 0,
            status |-> "pending"] }

VARIABLES sims, agents, events, metrics, req, ops, handled, applied, fn

vars == <<sims, agents, events, metrics, req, ops, handled, applied, fn>>

\* ---------------------------------------------------------------- helpers
Min(a, b) == IF a < b THEN a ELSE b

Range(s) == {s[i] : i \in DOMAIN s}

\* query.offset(0).limit(n).all() on rows already in order
Take(s, n) == SubSeq(s, 1, Min(Len(s), n))

RECURSIVE SelectIds(_, _, _)
\* the ids lo..hi that are in keep, ascending
SelectIds(lo, hi, keep) ==
    IF lo > hi THEN <<>>
    ELSE IF lo = hi THEN (IF lo \in keep THEN <<lo>> ELSE <<>>)
    ELSE LET mid == (lo + hi) \div 2
         IN  SelectIds(lo, mid, keep) \o SelectIds(mid + 1, hi, keep)

\* ------------------------------------------------------------------ rows
\* Agent.demographics / Agent.beliefs are JSON columns: a mapping, or a value
\* that is no mapping (PUT /agents/{id} with an explicit null stores None).
Demographics(inc) == [isdict |-> TRUE, hasIncome |-> TRUE, income |-> inc]
NotDict == [isdict |-> FALSE, hasIncome |-> FALSE, income |-> 0]
DemographicsInputs == {NotDict, Demographics(10)}

\* AgentBeliefs.model_dump() carries no "sentiment" key
\* The keys of a beliefs mapping besides "sentiment" and the ideology vector
\* as seed_simulation stores them (scalars in tenths).
SeededOtherBeliefs ==
    [economic_optimism |-> 5, institutional_trust |-> 5, policy_support_index |-> <<>>]

SeededBeliefs ==
    [isdict |-> TRUE, hasSentiment |-> FALSE, sentiment |-> 0,
     hasVector |-> TRUE, vectorIsList |-> TRUE, political_ideology_vector |-> <<2, 7>>,
     others |-> SeededOtherBeliefs]

\* agent.beliefs = {}
EmptyBeliefs ==
    [isdict |-> TRUE, hasSentiment |-> FALSE, sentiment |-> 0,
     hasVector |-> FALSE, vectorIsList |-> FALSE, political_ideology_vector |-> <<>>,
     others |-> <<>>]

\* A beliefs value that is no mapping (PUT /agents/{id} with "beliefs": null).
BeliefsNotDict == [EmptyBeliefs EXCEPT !.isdict = FALSE]

BeliefsUpdateInputs == {BeliefsNotDict}

\* AgentBehavioralTraits as seed_simulation stores them (in tenths).
SeededTraits ==
    [conformity |-> 5, risk_aversion |-> 5, empathy |-> 5, social_susceptibility |-> 5,
     consumption_preference |-> 5]

NewShortTermMemory == [last_decisions |-> <<>>]

NewAgent(s, inc) ==
    [simulation_id |-> s, demographics |-> Demographics(inc),
     behavioral_traits |-> SeededTraits, beliefs |-> SeededBeliefs,
     short_term_memory |-> NewShortTermMemory]

NewSimulation == [exists |-> TRUE, current_tick |-> 0, status |-> "initialized"]
NoSimulation == [exists |-> FALSE, current_tick |-> 0, status |-> "none"]

EventRow(s, ev) ==
    [simulation_id |-> s, event_type |-> ev.event_type, parameters |-> ev.parameters,
     target_tick |-> ev.target_tick, status |-> ev.status]

\* A backlog of EventLimit + 1 events injected for tick 0 of simulation 1 before
\* its first tick.
Backlog(ev) == [i \in 1..(EventLimit + 1) |-> EventRow(1, ev)]

ShockAt0 ==
    [event_type |-> "market_shock", parameters |-> NoParams, target_tick |-> 0, status |-> "pending"]

UBI100At0 ==
    [event_type |-> "ubi", parameters |-> UBI100, target_tick |-> 0, status |-> "pending"]

SeededAgents(s, pop) == [i \in 1..Len(pop) |-> NewAgent(s, pop[i])]

\* An agent after MaxStmDecisions tick advances: the oracle answered the
\* first half of them with "observe" and a sentiment_shift of 0.1 and failed
\* in the others.  One entry per tick, the sentiment moved by the shifts.
VeteranAgent(s, inc) ==
    [NewAgent(s, inc) EXCEPT
        !.short_term_memory.last_decisions =
            [t \in 1..MaxStmDecisions |->
                [tick |-> t - 1,
                 decision |-> IF t <= MaxStmDecisions \div 2
                              THEN LLMDecision("observe", 1)
                              ELSE FallbackDecision]],
        !.beliefs = [SeededBeliefs EXCEPT !.hasSentiment = TRUE,
                                          !.sentiment = DefaultSentiment
                                                        + MaxStmDecisions \div 2]]

\* States the operations reach before a tick advance: simulations created,
\* seeded or not, with no event, some events or the backlog, and a simulation
\* that was advanced MaxStmDecisions times and then seeded with more agents.
InitialStates ==
    { [sims |-> [s \in SimIds |-> IF s = 1 THEN NewSimulation ELSE NoSimulation],
       agents |-> <<>>,
       events |-> <<>>],
      [sims |-> [s \in SimIds |-> NewSimulation],
       agents |-> SeededAgents(1, <<0, 50, 200>>) \o SeededAgents(2, <<50>>),
       events |-> <<EventRow(1, UBI100At0)>>],
      [sims |-> [s \in SimIds |-> IF s = 1 THEN NewSimulation ELSE NoSimulation],
       agents |-> SeededAgents(1, <<0, 50>>),
       events |-> <<EventRow(1, [UBI100At0 EXCEPT !.parameters.amount_per_agent = Num(-5)]),
                    EventRow(1, ShockAt0),
                    EventRow(1, [UBI100At0 EXCEPT !.target_tick = 1])>>],
      [sims |-> [s \in SimIds |-> IF s = 1 THEN NewSimulation ELSE NoSimulation],
       agents |-> SeededAgents(1, <<50>>),
       events |-> Backlog(ShockAt0)],
      [sims |-> [s \in SimIds |-> IF s = 1 THEN [NewSimulation EXCEPT !.current_tick = MaxStmDecisions]
                                           ELSE NoSimulation],
       agents |-> <<VeteranAgent(1, 50)>> \o SeededAgents(1, <<0, 200>>),
       events |-> <<>>] }

\* No call of a function of the numeric and memory helpers has been made.
NoCall == [op |-> "none"]

IdleReq ==
    [pc |-> "idle", sim |-> 1, current_tick |-> 0, pending_events |-> <<>>, idx |-> 0,
     eligible |-> {}, dirty |-> {}, session |-> <<>>, stages |-> <<>>, failed |-> {},
     inactive |-> FALSE, agent_ids |-> <<>>, aidx |-> 0, raised |-> {},
     llm_failed |-> {}, oracle_calls |-> <<>>, snapshots_before |-> 0, result |-> NoTick]

Init ==
    /\ \E i \in InitialStates : sims = i.sims /\ agents = i.agents /\ events = i.events
    /\ metrics = <<>>
    /\ req = IdleReq
    /\ ops = [count |-> 0, requests |-> 0, crashes |-> 0]
    /\ applied = <<>>
    /\ fn = NoCall
    /\ handled = {e \in DOMAIN events : events[e].status # "pending"}

\* No advance_tick call is in flight.
Quiet == req.pc \in {"idle", "returned", "raised", "crashed"}

\* History: the events that have ever had a status other than pending.
LeftPending(h, rows) == h \cup {e \in DOMAIN rows : rows[e].status # "pending"}

\* ------------------------------------------------------- crud/agent.py
\* get_agents(db, simulation_id=s, limit=n): ids of the simulation's agents
AgentIdsOf(rows, s) ==
    SelectIds(1, Len(rows), {i \in DOMAIN rows : rows[i].simulation_id = s})

AgentIdsOfSet(s) == {a \in DOMAIN agents : agents[a].simulation_id = s}

get_agents(rows, s, limit) == Take(AgentIdsOf(rows, s), limit)

\* ------------------------------------------------------- crud/event.py
\* Mutant: the status filter is dropped.
get_events_any_status(rows, s, st, t, limit) ==
    Take(SelectIds(1, Len(rows), {i \in DOMAIN rows : /\ rows[i].simulation_id = s
                                                     /\ rows[i].target_tick = t}), limit)

\* Mutant: the events scheduled for the tick or an earlier one are selected.
get_events_due(rows, s, st, t, limit) ==
    Take(SelectIds(1, Len(rows), {i \in DOMAIN rows : /\ rows[i].simulation_id = s
                                                     /\ rows[i].status = st
                                                     /\ rows[i].target_tick # NoTick
                                                     /\ rows[i].target_tick <= t}), limit)

\* Mutant: the target_tick filter is dropped.
get_events_any_tick(rows, s, st, t, limit) ==
    Take(SelectIds(1, Len(rows), {i \in DOMAIN rows : /\ rows[i].simulation_id = s
                                                     /\ rows[i].status = st}), limit)

\* get_events(db, simulation_id=s, status=st, tick=t, limit=n), in created_at
\* order (the order of the rows)
get_events(rows, s, st, t, limit) ==
    LET keep == {i \in DOMAIN rows : /\ rows[i].simulation_id = s
                                      /\ rows[i].status = st
                                      /\ rows[i].target_tick = t}
    IN  Take(SelectIds(1, Len(rows), keep), limit)

\* Mutant: a failed event is put back for a retry.
update_event_status_retry(rows, e, st) ==
    [rows EXCEPT ![e].status = IF st = "failed" THEN "pending" ELSE st]

update_event_status(rows, e, st) == [rows EXCEPT ![e].status = st]

\* ------------------------------------------------- HTTP operations
\* POST /simulations: create_simulation ignores current_tick and status of the
\* request body; the row takes the column defaults.
CreateSimulation(s) ==
    /\ Quiet
    /\ ~sims[s].exists
    /\ ops.count < MaxOps
    /\ sims' = [sims EXCEPT ![s] = NewSimulation]
    /\ ops' = [ops EXCEPT !.count = @ + 1]
    /\ UNCHANGED <<agents, events, metrics, req, handled, applied, fn>>

\* PUT /simulations/{id}/status: only the status field reaches update_simulation.
UpdateSimulationStatus(s, st) ==
    /\ Quiet
    /\ sims[s].exists
    /\ ops.count < MaxOps
    /\ sims' = [sims EXCEPT ![s].status = st]
    /\ ops' = [ops EXCEPT !.count = @ + 1]
    /\ UNCHANGED <<agents, events, metrics, req, handled, applied, fn>>

\* POST /simulations/{id}/seed and the seeding task it queues.
SeedSimulation(s, pop) ==
    /\ Quiet
    /\ sims[s].exists
    /\ AgentIdsOf(agents, s) = <<>>
    /\ ops.count < MaxOps
    /\ agents' = agents \o SeededAgents(s, pop)
    /\ ops' = [ops EXCEPT !.count = @ + 1]
    /\ UNCHANGED <<sims, events, metrics, req, handled, applied, fn>>

\* PUT /agents/{id} with a demographics value: a valid AgentDemographics, or
\* an explicit null, which update_agent stores as it is.
UpdateAgent(a, d) ==
    /\ Quiet
    /\ a \in DOMAIN agents
    /\ ops.count < MaxOps
    /\ agents' = [agents EXCEPT ![a].demographics = d]
    /\ ops' = [ops EXCEPT !.count = @ + 1]
    /\ UNCHANGED <<sims, events, metrics, req, handled, applied, fn>>

\* PUT /agents/{id} with "beliefs": null: update_agent stores the value as
\* it is.
UpdateAgentBeliefs(a, b) ==
    /\ Quiet
    /\ a \in DOMAIN agents
    /\ ops.count < MaxOps
    /\ agents' = [agents EXCEPT ![a].beliefs = b]
    /\ ops' = [ops EXCEPT !.count = @ + 1]
    /\ UNCHANGED <<sims, events, metrics, req, handled, applied, fn>>

\* current_stm['last_decisions'][-max_stm_decisions:]
LastN(s, n) == IF Len(s) > n THEN SubSeq(s, Len(s) - n + 1, Len(s)) ELSE s

\* POST /agents/{id}/decide: the decision the oracle returned is appended to
\* the agent's decision log as it is, the log is cut to its last
\* max_stm_decisions entries and committed.
DecideAgent(a, d) ==
    /\ Quiet
    /\ a \in DOMAIN agents
    /\ ops.count < MaxOps
    /\ agents' = [agents EXCEPT ![a].short_term_memory.last_decisions =
                      LastN(Append(@, [tick |-> NoTick, decision |-> d]), MaxStmDecisions)]
    /\ ops' = [ops EXCEPT !.count = @ + 1]
    /\ UNCHANGED <<sims, events, metrics, req, handled, applied, fn>>

\* POST /simulations/{id}/events
InjectEvent(s, ev) ==
    /\ Quiet
    /\ sims[s].exists
    /\ ops.count < MaxOps
    /\ events' = Append(events, EventRow(s, ev))
    /\ ops' = [ops EXCEPT !.count = @ + 1]
    /\ handled' = LeftPending(handled, events')
    /\ UNCHANGED <<sims, agents, metrics, req, applied, fn>>

\* ------------------------------------------------- schemas/event.py
\* Mutant: the ge=0 constraint of amount_per_agent is missing.
AmountValidAnySign(a) == a.kind \in {"num", "numstr"}

\* Field(..., ge=0) on a float: a number or a numeric string is accepted when
\* it is >= 0; other text and a missing key are validation errors.
AmountValid(a) == a.kind \in {"num", "numstr"} /\ a.val >= 0

\* Optional[int] = Field(None, ge=1)
DurationValid(d) == d.kind = "missing" \/ (d.kind \in {"num", "numstr"} /\ d.val >= 1)

\* UBIEventParams(**event.parameters): whether validation passes
UBIEventParams(p) == AmountValid(p.amount_per_agent) /\ DurationValid(p.duration_ticks)

\* ------------------------------------------------- the tick orchestrator
\* Mutant: the first metric snapshot is taken after the agent updates.
StageAfterAgentsFirst(stage) ==
    CASE stage = "events" -> "agents"
      [] stage = "agents" -> "metrics_pre"
      [] stage = "metrics_pre" -> "metrics_post"
      [] stage = "metrics_post" -> "incr"
      [] stage = "incr" -> "returned"

\* The stage that follows a stage of advance_tick_endpoint.
StageAfter(stage) ==
    CASE stage = "events" -> "metrics_pre"
      [] stage = "metrics_pre" -> "agents"
      [] stage = "agents" -> "metrics_post"
      [] stage = "metrics_post" -> "incr"
      [] stage = "incr" -> "returned"

\* Where advance_tick_endpoint goes when a stage raises: each of the first
\* four stages sits in its own try/except Exception, the tick write does not.
StageExcept(stage) ==
    IF stage = "incr" THEN "raised" ELSE StageAfter(stage)

StageOf(pc) ==
    IF pc \in {"trigger", "handle"} THEN "events"
    ELSE IF pc = "agent_loop" THEN "agents"
    ELSE pc

\* A stage returns normally.
StageReturn(r) == [r EXCEPT !.pc = StageAfter(StageOf(r.pc))]

\* A database operation of the stage the request is in failed: the session's
\* transaction is inactive from here on.
Faulted(r) == [r EXCEPT !.failed = @ \cup {StageOf(r.pc)}, !.inactive = TRUE]

\* A stage raises: the orchestrator's handler runs.  None of its handlers
\* rolls the session back.
StageRaise(r) == [r EXCEPT !.pc = StageExcept(StageOf(r.pc))]

\* db.rollback()
Rollback(r) == [r EXCEPT !.dirty = {}, !.session = <<>>, !.inactive = FALSE]

\* The session after a successful commit.
Committed(r) == [r EXCEPT !.dirty = {}, !.session = <<>>]

\* Mutant: beliefs is not flagged as modified and a commit writes the decision
\* log only.
FlushMemoryOnly(rows, r) ==
    [a \in DOMAIN rows |->
        IF a \in r.dirty
        THEN [rows[a] EXCEPT !.short_term_memory = r.session[a].short_term_memory]
        ELSE rows[a]]

\* What a successful commit writes of the session's modified agents:
\* run_agent_updates flags short_term_memory and beliefs only.
Flush(rows, r) ==
    [a \in DOMAIN rows |->
        IF a \in r.dirty
        THEN [rows[a] EXCEPT !.short_term_memory = r.session[a].short_term_memory,
                             !.beliefs = r.session[a].beliefs]
        ELSE rows[a]]

\* The snapshot rows of simulation s and tick t.
SnapshotsOf(s, t) == {i \in DOMAIN metrics : metrics[i].simulation_id = s /\ metrics[i].tick = t}

FaultKinds == {"none", "query", "commit"}

\* A step of the request meets a persistence fault or none.
Fault(f) ==
    /\ f \in FaultKinds
    /\ IF f = "none" THEN ops' = ops
       ELSE ops.count < MaxOps /\ ops' = [ops EXCEPT !.count = @ + 1]

\* POST /simulations/{id}/tick, up to the first stage.
StartTick(s) ==
    /\ Quiet
    /\ sims[s].exists
    /\ ops.requests < MaxRequests
    /\ ops' = [ops EXCEPT !.requests = @ + 1]
    /\ req' = [IdleReq EXCEPT !.pc = "events", !.sim = s, !.current_tick = sims[s].current_tick,
                              !.snapshots_before =
                                  Cardinality(SnapshotsOf(s, sims[s].current_tick))]
    /\ UNCHANGED <<sims, agents, events, metrics, handled, applied, fn>>

\* ------------------------------------------------- services/event_service.py
\* process_events_for_tick, the selection
SelectEvents(f) ==
    /\ req.pc = "events"
    /\ Fault(f) /\ f # "commit"
    /\ LET r == [req EXCEPT !.stages = Append(@, "events")]
           found == get_events(events, req.sim, "pending", req.current_tick, EventLimit)
           due == {e \in DOMAIN events : /\ events[e].simulation_id = req.sim
                                         /\ events[e].status = "pending"
                                         /\ events[e].target_tick = req.current_tick}
       IN  req' = IF f = "query" THEN StageRaise(Faulted(r))
                  ELSE IF found = <<>> THEN StageReturn([r EXCEPT !.eligible = due])
                  ELSE [r EXCEPT !.pc = "trigger", !.pending_events = found, !.idx = 1,
                                 !.eligible = due]
    /\ UNCHANGED <<sims, agents, events, metrics, handled, applied, fn>>

\* process_events_for_tick, loop body: mark the event triggered and commit
TriggerEvent(f) ==
    /\ req.pc = "trigger"
    /\ Fault(f) /\ f # "query"
    /\ LET e == req.pending_events[req.idx]
       IN  IF f = "commit"
           THEN /\ req' = StageRaise(Faulted(req))
                /\ UNCHANGED events
           ELSE /\ events' = update_event_status(events, e, "triggered")
                /\ req' = [req EXCEPT !.pc = "handle"]
    /\ handled' = LeftPending(handled, events')
    /\ UNCHANGED <<sims, agents, metrics, applied, fn>>

\* The loop of process_events_for_tick moves to its next event or ends.
NextEvent(r) ==
    IF r.idx < Len(r.pending_events)
    THEN [r EXCEPT !.pc = "trigger", !.idx = @ + 1]
    ELSE StageReturn(r)

\* apply_ubi_event, the loop over the agents: an agent whose demographics is a
\* mapping gets income (0.0 when the key is absent) + amount, any other agent
\* is skipped.
PayAgent(row, amount) ==
    IF row.demographics.isdict
    THEN [row EXCEPT !.demographics =
              [isdict |-> TRUE, hasIncome |-> TRUE,
               income |-> (IF row.demographics.hasIncome THEN row.demographics.income ELSE 0) + amount]]
    ELSE row

PayAgents(rows, ids, amount) ==
    [a \in DOMAIN rows |-> IF a \in Range(ids) THEN PayAgent(rows[a], amount) ELSE rows[a]]

\* Mutant: the income changes reach the rows although the commit failed.
CommitUBIPartial(rows, paid, ok) == paid

\* apply_ubi_event, the try block that ends it: the income changes of the
\* session and the processed status are committed in one transaction, or the
\* except branch rolls the session back and the rows stay as they were.
CommitUBI(rows, paid, ok) == IF ok THEN paid ELSE rows

\* The handler chosen for an event type by process_events_for_tick.
Dispatch(event_type) == IF event_type = "ubi" THEN "apply_ubi_event" ELSE "unknown"

\* process_events_for_tick, loop body after the trigger: apply_ubi_event for
\* "ubi", failed for any other type.
HandleEvent(f) ==
    /\ req.pc = "handle"
    /\ Fault(f)
    /\ LET e == req.pending_events[req.idx]
           ev == events[e]
           amount == ev.parameters.amount_per_agent.val
           ids == get_agents(agents, req.sim, AgentLimit)
       IN  IF Dispatch(ev.event_type) = "apply_ubi_event" /\ UBIEventParams(ev.parameters)
           THEN \* the agents are loaded and paid, then one commit for all
                CASE f = "query" ->
                        /\ req' = StageRaise(Faulted(req))
                        /\ UNCHANGED <<agents, events>>
                  [] f = "commit" ->
                        \* except Exception: db.rollback()
                        /\ req' = NextEvent(Rollback(Faulted(req)))
                        /\ agents' = CommitUBI(agents, PayAgents(agents, ids, amount), FALSE)
                        /\ UNCHANGED events
                  [] f = "none" ->
                        /\ agents' = CommitUBI(agents, PayAgents(agents, ids, amount), TRUE)
                        /\ events' = update_event_status(events, e, "processed")
                        /\ req' = NextEvent(req)
           ELSE \* invalid parameters or an unknown type: one status write
                /\ f # "query"
                /\ UNCHANGED agents
                /\ IF f = "commit"
                   THEN /\ req' = StageRaise(Faulted(req))
                        /\ UNCHANGED events
                   ELSE /\ events' = update_event_status(events, e, "failed")
                        /\ req' = NextEvent(req)
    /\ handled' = LeftPending(handled, events')
    /\ applied' = IF events'[req.pending_events[req.idx]].status = "processed"
                  THEN Append(applied, req.pending_events[req.idx])
                  ELSE applied
    /\ UNCHANGED <<sims, metrics, fn>>

\* ------------------------------------------------- services/metrics_service.py
\* calculate_and_store_metrics, the incomes it collects: those of the agents
\* whose demographics is a mapping with an income key.
CollectIncomes(rows, ids) ==
    LET kept == SelectIds(1, Len(ids), {i \in DOMAIN ids : /\ rows[ids[i]].demographics.isdict
                                                           /\ rows[ids[i]].demographics.hasIncome})
    IN  [k \in 1..Len(kept) |-> rows[ids[kept[k]]].demographics.income]

\* calculate_belief_variance, the vectors it collects: those of the agents
\* whose beliefs is a mapping with a political_ideology_vector that is a list.
ValidVector(b) == b.isdict /\ b.hasVector /\ b.vectorIsList

CollectVectors(rows, ids) ==
    LET kept == SelectIds(1, Len(ids), {i \in DOMAIN ids : ValidVector(rows[ids[i]].beliefs)})
    IN  [k \in 1..Len(kept) |-> rows[ids[kept[k]]].beliefs.political_ideology_vector]

\* calculate_and_store_metrics, for the stage before and the stage after the
\* agent updates.  The agents are read as the session holds them.  The
\* snapshot row is kept by the incomes and the vectors its Gini coefficient and
\* its belief variance were computed from.
CalculateAndStoreMetrics(f) ==
    /\ req.pc \in {"metrics_pre", "metrics_post"}
    /\ Fault(f)
    /\ LET r == [req EXCEPT !.stages = Append(@, req.pc)]
           ids == get_agents(agents, req.sim, AgentLimit)
           snap == [simulation_id |-> req.sim, tick |-> sims[req.sim].current_tick,
                    incomes |-> CollectIncomes(Flush(agents, r), ids),
                    vectors |-> CollectVectors(Flush(agents, r), ids)]
       IN  CASE req.inactive ->
                   \* get_agents raises
                   /\ f = "none"
                   /\ req' = StageRaise(r)
                   /\ UNCHANGED <<agents, metrics>>
             [] ~req.inactive /\ f = "query" ->
                   /\ req' = StageRaise(Faulted(r))
                   /\ UNCHANGED <<agents, metrics>>
             [] ~req.inactive /\ f # "query" /\ ids = <<>> ->
                   /\ f = "none"
                   /\ req' = StageReturn(r)
                   /\ UNCHANGED <<agents, metrics>>
             [] ~req.inactive /\ f = "commit" /\ ids # <<>> ->
                   \* logged inside calculate_and_store_metrics, no rollback
                   /\ req' = StageReturn(Faulted(r))
                   /\ UNCHANGED <<agents, metrics>>
             [] ~req.inactive /\ f = "none" /\ ids # <<>> ->
                   /\ metrics' = Append(metrics, snap)
                   /\ agents' = Flush(agents, r)
                   /\ req' = StageReturn(Committed(r))
    /\ UNCHANGED <<sims, events, handled, applied, fn>>

\* ------------------------------------------------- services/llm_service.py
\* The text of an oracle response as a sequence of tokens: prose without
\* braces, the code fences, the braces, a member with a scalar value, the key
\* of a member whose value is an object, and text that is no JSON member.
\* Commas, colons and white space are not kept.
Tok(t) == [tok |-> t, key |-> "", val |-> Null]
Prose == Tok("prose")
FenceJson == Tok("fence_json")
Fence == Tok("fence")
Open == Tok("{")
Close == Tok("}")
Broken == Tok("broken")
Pair(k, v) == [tok |-> "pair", key |-> k, val |-> v]
Key(k) == [tok |-> "key", key |-> k, val |-> Null]

\* Texts an oracle call can return: no JSON object in it, an object with broken
\* syntax, "{}", an object without the required action, a decision, the same
\* decision in a code fence, a decision with a policy_opinion_shift mapping,
\* and a decision with a sentiment_shift of 1.5 and a spending_ratio_shift.
NoJsonText == <<Prose>>
BadJsonText == <<Open, Broken, Close>>
EmptyObjectText == <<Open, Close>>
NoActionText == <<Open, Pair("sentiment_shift", Num(1)), Close>>
ObserveText == <<Open, Pair("action", Str("observe")), Pair("sentiment_shift", Num(1)), Close>>
FencedText == <<FenceJson>> \o ObserveText \o <<Fence>>
NestedText ==
    <<Open, Pair("action", Str("observe")), Key("policy_opinion_shift"),
      Open, Pair("ubi", Num(1)), Close, Close>>
ExtremeText ==
    <<Open, Pair("action", Str("protest")), Pair("sentiment_shift", Num(15)),
      Pair("spending_ratio_shift", Num(2)), Close>>

\* The texts from which parse_structured_decision returns a decision.
DecisionTexts == {ObserveText, FencedText, ExtremeText}

\* What an oracle call meets: no configured client, an error of the API call,
\* a blocked or empty response, a response without content parts, or a text.
OracleInputs ==
    { [outcome |-> o, text |-> EmptyObjectText] :
          o \in {"not_configured", "network_error", "blocked", "no_parts"} }
    \cup { [outcome |-> "text", text |-> t] :
          t \in {NoJsonText, BadJsonText, NoActionText, NestedText} \cup DecisionTexts }

OracleFailures == OracleInputs \ {[outcome |-> "text", text |-> t] : t \in DecisionTexts}

\* get_llm_decision_sync: get_llm_client raises when no client is configured;
\* every other failure is answered with the text "{}".
get_llm_decision_sync(o) ==
    CASE o.outcome = "not_configured" -> [raised |-> TRUE, text |-> EmptyObjectText]
      [] o.outcome \in {"network_error", "blocked", "no_parts"} ->
             [raised |-> FALSE, text |-> EmptyObjectText]
      [] o.outcome = "text" -> [raised |-> FALSE, text |-> o.text]

\* raw_response.strip().removeprefix(...).removesuffix(...).strip(): an
\* opening json fence at the start and a fence at the end are removed.
strip_fences(raw) ==
    LET unprefixed == IF raw # <<>> /\ Head(raw) = FenceJson THEN Tail(raw) ELSE raw
    IN  IF unprefixed # <<>> /\ unprefixed[Len(unprefixed)] = Fence
        THEN SubSeq(unprefixed, 1, Len(unprefixed) - 1)
        ELSE unprefixed

NoMatch == [found |-> FALSE, group |-> <<>>]

\* re.search with the pattern of an opening brace, a lazy run of any
\* characters and a closing brace: the match starts at the first opening
\* brace and ends at the first closing brace after it.
re_search(text) ==
    LET opens == {i \in DOMAIN text : text[i] = Open}
        first == CHOOSE i \in opens : \A k \in opens : i <= k
        closes == {j \in DOMAIN text : j > first /\ text[j] = Close}
        last == CHOOSE j \in closes : \A k \in closes : j <= k
    IN  IF opens = {} THEN NoMatch
        ELSE IF closes = {} THEN NoMatch
        ELSE [found |-> TRUE, group |-> SubSeq(text, first, last)]

\* data[k] = v on a mapping
Put(data, k, v) == [x \in DOMAIN data \cup {k} |-> IF x = k THEN v ELSE data[x]]

JSONDecodeError == [ok |-> FALSE, next |-> 0, data |-> <<>>]

\* json.loads on the members of an object from token i on, up to the brace
\* that closes it; an object as a value is read by the same rule.
RECURSIVE ParseMembers(_, _, _)
ParseMembers(toks, i, data) ==
    IF i > Len(toks) THEN JSONDecodeError
    ELSE IF toks[i] = Close THEN [ok |-> TRUE, next |-> i + 1, data |-> data]
    ELSE IF toks[i].tok = "pair"
         THEN ParseMembers(toks, i + 1, Put(data, toks[i].key, toks[i].val))
    ELSE IF toks[i].tok = "key" /\ i + 1 <= Len(toks) /\ toks[i + 1] = Open
         THEN LET inner == ParseMembers(toks, i + 2, <<>>)
              IN  IF inner.ok
                  THEN ParseMembers(toks, inner.next, Put(data, toks[i].key, Obj(inner.data)))
                  ELSE JSONDecodeError
    ELSE JSONDecodeError

\* json.loads(json_str): one object and nothing after it.
json_loads(toks) ==
    IF toks = <<>> \/ toks[1] # Open THEN [ok |-> FALSE, data |-> <<>>]
    ELSE LET r == ParseMembers(toks, 2, <<>>)
         IN  [ok |-> r.ok /\ r.next = Len(toks) + 1, data |-> IF r.ok THEN r.data ELSE <<>>]

IsFloat(v) == v.kind \in {"num", "numstr"}

\* sentiment_shift: float = Field(0.0, ...): any number.
ShiftAccepted(v) == IsFloat(v)

\* LLMDecision.model_validate(data): action must be a string; dialogue a
\* string or null; sentiment_shift a number; policy_opinion_shift a mapping to
\* numbers; spending_ratio_shift a number or null.  Keys the data lacks take
\* their defaults and other keys are ignored.
model_validate(data) ==
    LET has(k) == k \in DOMAIN data
        ok == /\ has("action") /\ data["action"].kind = "str"
              /\ has("dialogue") => data["dialogue"].kind \in {"str", "null"}
              /\ has("sentiment_shift") => ShiftAccepted(data["sentiment_shift"])
              /\ has("policy_opinion_shift") =>
                     /\ data["policy_opinion_shift"].kind = "obj"
                     /\ \A k \in DOMAIN data["policy_opinion_shift"].val :
                            IsFloat(data["policy_opinion_shift"].val[k])
              /\ has("spending_ratio_shift") =>
                     \/ IsFloat(data["spending_ratio_shift"])
                     \/ data["spending_ratio_shift"].kind = "null"
    IN  IF ~ok THEN [ok |-> FALSE, decision |-> LLMDecision("", 0)]
        ELSE [ok |-> TRUE,
              decision |->
                 [action |-> data["action"].val,
                  dialogue |-> IF has("dialogue") THEN data["dialogue"] ELSE Null,
                  sentiment_shift |->
                      IF has("sentiment_shift") THEN data["sentiment_shift"].val ELSE 0,
                  policy_opinion_shift |->
                      IF has("policy_opinion_shift")
                      THEN [k \in DOMAIN data["policy_opinion_shift"].val |->
                                data["policy_opinion_shift"].val[k].val]
                      ELSE <<>>,
                  spending_ratio_shift |->
                      IF has("spending_ratio_shift") /\ IsFloat(data["spending_ratio_shift"])
                      THEN Num(data["spending_ratio_shift"].val) ELSE Null]]

\* parse_structured_decision: ValueError when no object is found, when
\* json.loads fails and when LLMDecision rejects the data.
parse_structured_decision(raw) ==
    LET match == re_search(strip_fences(raw))
        loaded == json_loads(match.group)
        parsed_decision == model_validate(loaded.data)
    IN  IF match.found /\ loaded.ok /\ parsed_decision.ok
        THEN [raised |-> FALSE, decision |-> parsed_decision.decision]
        ELSE [raised |-> TRUE, decision |-> LLMDecision("", 0)]

\* Mutant: an exception of the oracle path is not replaced by the fallback.
OracleDecisionUnguarded(o) ==
    parse_structured_decision(get_llm_decision_sync(o).text).decision

\* run_agent_updates, the try/except around the oracle call and the parsing.
OracleDecision(o) ==
    LET raw == get_llm_decision_sync(o)
        parsed == parse_structured_decision(raw.text)
    IN  IF raw.raised \/ parsed.raised THEN FallbackDecision ELSE parsed.decision

\* What the oracle path yields for one agent: a parsed decision or the fallback.
DecisionInputs == {OracleDecision(o) : o \in OracleInputs}

\* ------------------------------------------------- services/simulation_service.py
\* Mutant: the log is cut to its last max_stm_decisions entries, as the decide
\* endpoint does.
AppendDecisionCapped(row, tick, decision) ==
    [row EXCEPT !.short_term_memory =
        [last_decisions |-> LastN(Append(@.last_decisions, [tick |-> tick, decision |-> decision]),
                                  MaxStmDecisions)]]

\* Mutant: an agent whose log already holds an entry of the tick is given no
\* second one.
AppendDecisionOncePerTick(row, tick, decision) ==
    IF \E i \in DOMAIN row.short_term_memory.last_decisions :
           row.short_term_memory.last_decisions[i].tick = tick
    THEN row
    ELSE [row EXCEPT !.short_term_memory =
             [last_decisions |-> Append(@.last_decisions, [tick |-> tick, decision |-> decision])]]

\* run_agent_updates, loop body, step 3: the decision is appended to the
\* decision log.
AppendDecision(row, tick, decision) ==
    [row EXCEPT !.short_term_memory =
        [last_decisions |-> Append(@.last_decisions, [tick |-> tick, decision |-> decision])]]

\* Mutant: step 4 starts from 0.5 also when a sentiment is there.
ShiftSentimentFromDefault(row, decision) ==
    LET agent_beliefs == IF row.beliefs.isdict THEN row.beliefs ELSE EmptyBeliefs
    IN  [row EXCEPT !.beliefs =
            [agent_beliefs EXCEPT
                !.hasSentiment = TRUE,
                !.sentiment = DefaultSentiment + decision.sentiment_shift]]

\* Mutant: step 4 stores a new beliefs mapping that holds the sentiment only.
ShiftSentimentOnly(row, decision) ==
    LET agent_beliefs == IF row.beliefs.isdict THEN row.beliefs ELSE EmptyBeliefs
    IN  [row EXCEPT !.beliefs =
            [EmptyBeliefs EXCEPT
                !.hasSentiment = TRUE,
                !.sentiment = (IF agent_beliefs.hasSentiment THEN agent_beliefs.sentiment
                               ELSE DefaultSentiment) + decision.sentiment_shift]]

\* run_agent_updates, loop body, step 4: a beliefs value that is no mapping is
\* replaced by {}; sentiment_shift is added to beliefs["sentiment"] (0.5 when
\* absent); the other keys of the mapping stay.
ShiftSentiment(row, decision) ==
    LET agent_beliefs == IF row.beliefs.isdict THEN row.beliefs ELSE EmptyBeliefs
    IN  [row EXCEPT !.beliefs =
            [agent_beliefs EXCEPT
                !.hasSentiment = TRUE,
                !.sentiment = (IF agent_beliefs.hasSentiment THEN agent_beliefs.sentiment
                               ELSE DefaultSentiment) + decision.sentiment_shift]]

\* Mutant: the loop body also applies spending_ratio_shift to the consumption
\* preference and policy_opinion_shift to the policy support index.
UpdateAgentStateAllShifts(row, tick, decision) ==
    LET updated == ShiftSentiment(AppendDecision(row, tick, decision), decision)
        spend == IF decision.spending_ratio_shift.kind = "num"
                 THEN decision.spending_ratio_shift.val ELSE 0
    IN  [updated EXCEPT
            !.behavioral_traits.consumption_preference = @ + spend,
            !.beliefs.others =
                IF decision.policy_opinion_shift = <<>> THEN @
                ELSE [policy_support_index |-> decision.policy_opinion_shift]]

\* run_agent_updates, loop body without an exception.
UpdateAgentState(row, tick, decision) ==
    ShiftSentiment(AppendDecision(row, tick, decision), decision)

\* Mutant: a failed oracle call is made a second time.
InvokeOracleRetry(calls, a, o) ==
    IF o \in OracleFailures THEN calls \o <<a, a>> ELSE Append(calls, a)

\* llm_response_raw = llm_service.get_llm_decision_sync(prompt): one call for
\* the agent of the pass, whatever comes of it.  calls is the record of the
\* calls of the request, by agent.
InvokeOracle(calls, a, o) == Append(calls, a)

\* Where the body of the agent loop can raise: nowhere, in step 3 before the
\* log is touched, or in step 4 after the log entry was appended and flagged.
RaisePoints == {"none", "memory", "beliefs"}

\* run_agent_updates up to its loop: the agents are loaded.
RunAgentUpdates(f) ==
    /\ req.pc = "agents"
    /\ Fault(f) /\ f # "commit"
    /\ req.inactive => f = "none"
    /\ LET r == [req EXCEPT !.stages = Append(@, "agents")]
           ids == get_agents(agents, req.sim, AgentLimit)
       IN  req' = IF req.inactive THEN StageRaise(r)
                  ELSE IF f = "query" THEN StageRaise(Faulted(r))
                  ELSE IF ids = <<>> THEN StageReturn(r)
                  ELSE [r EXCEPT !.pc = "agent_loop", !.agent_ids = ids, !.aidx = 1,
                                 !.session = agents]
    /\ UNCHANGED <<sims, agents, events, metrics, handled, applied, fn>>

\* Mutant: the exception of one agent ends the loop.
NextAgentStopOnRaise(r) ==
    IF r.aidx < Len(r.agent_ids) /\ r.raised = {} THEN [r EXCEPT !.aidx = @ + 1]
    ELSE StageReturn(r)

\* The agent loop moves to its next agent or run_agent_updates returns.
NextAgent(r) ==
    IF r.aidx < Len(r.agent_ids) THEN [r EXCEPT !.aidx = @ + 1] ELSE StageReturn(r)

\* run_agent_updates, one pass of the loop: the changes stay in the session
\* and wait for the next commit of the request; an exception is logged and the
\* loop continues.  llm_failed notes the agents whose oracle call failed.
ProcessAgent(o, x) ==
    /\ req.pc = "agent_loop"
    /\ IF x = "none" THEN ops' = ops
       ELSE ops.count < MaxOps /\ ops' = [ops EXCEPT !.count = @ + 1]
    /\ LET a == req.agent_ids[req.aidx]
           tick == sims[req.sim].current_tick
           decision == OracleDecision(o)
           row == CASE x = "none" -> UpdateAgentState(req.session[a], tick, decision)
                    [] x = "memory" -> req.session[a]
                    [] x = "beliefs" -> AppendDecision(req.session[a], tick, decision)
       IN  req' = NextAgent([req EXCEPT
                      !.session[a] = row,
                      !.dirty = IF x = "memory" THEN @ ELSE @ \cup {a},
                      !.raised = IF x = "none" THEN @ ELSE @ \cup {a},
                      !.llm_failed = IF o \in OracleFailures THEN @ \cup {a} ELSE @,
                      !.oracle_calls = InvokeOracle(@, a, o)])
    /\ UNCHANGED <<sims, agents, events, metrics, handled, applied, fn>>

\* ------------------------------------------------- crud/simulation.py
\* Mutant: the tick is written back unchanged.
new_tick_same(current_tick) == current_tick

\* Mutant: the tick skips one.
new_tick_skip(current_tick) == current_tick + 2

\* new_tick = current_tick + 1
new_tick(current_tick) == current_tick + 1

\* update_simulation(db, id, SimulationUpdate(current_tick=new_tick)) as the
\* last stage of advance_tick_endpoint; the commit also writes what the
\* session still holds.  The request's session is closed when it ends.
IncrementTick(f) ==
    /\ req.pc = "incr"
    /\ Fault(f)
    /\ req.inactive => f = "none"
    /\ LET r == [req EXCEPT !.stages = Append(@, "incr")]
       IN  IF req.inactive
           THEN \* get_simulation raises
                /\ req' = StageRaise(r)
                /\ UNCHANGED <<sims, agents>>
           ELSE IF f = "none"
           THEN /\ sims' = [sims EXCEPT ![req.sim].current_tick = new_tick(req.current_tick)]
                /\ agents' = Flush(agents, r)
                /\ req' = [StageReturn(Committed(r)) EXCEPT !.result = new_tick(req.current_tick)]
           ELSE /\ req' = StageRaise(Faulted(r))
                /\ UNCHANGED <<sims, agents>>
    /\ UNCHANGED <<events, metrics, handled, applied, fn>>

\* The server process dies while an advance_tick call is in flight: what was
\* committed stays, the session and the rest of the call are lost.
Crash ==
    /\ ~Quiet
    /\ ops.count < MaxOps
    /\ ops' = [ops EXCEPT !.count = @ + 1, !.crashes = @ + 1]
    /\ req' = [Rollback(req) EXCEPT !.pc = "crashed"]
    /\ UNCHANGED <<sims, agents, events, metrics, handled, applied, fn>>

Next ==
    \/ Crash
    \/ \E s \in SimIds : CreateSimulation(s)
    \/ \E s \in SimIds, st \in StatusInputs : UpdateSimulationStatus(s, st)
    \/ \E s \in SimIds, pop \in SeedInputs : SeedSimulation(s, pop)
    \/ \E a \in DOMAIN agents, d \in DemographicsInputs : UpdateAgent(a, d)
    \/ \E a \in DOMAIN agents, b \in BeliefsUpdateInputs : UpdateAgentBeliefs(a, b)
    \/ \E s \in SimIds, ev \in EventInputs : InjectEvent(s, ev)
    \/ \E a \in DOMAIN agents : DecideAgent(a, LLMDecision("observe", 1))
    \/ \E s \in SimIds : StartTick(s)
    \/ \E f \in FaultKinds : SelectEvents(f)
    \/ \E f \in FaultKinds : TriggerEvent(f)
    \/ \E f \in FaultKinds : HandleEvent(f)
    \/ \E f \in FaultKinds : CalculateAndStoreMetrics(f)
    \/ \E f \in FaultKinds : RunAgentUpdates(f)
    \/ \E o \in OracleInputs, x \in RaisePoints : ProcessAgent(o, x)
    \/ \E f \in FaultKinds : IncrementTick(f)

Spec == Init /\ [][Next]_vars

\* ------------------------------------------------- crud/memory.py
\* The arguments of add_long_term_memory.  An embedding is kept by its length
\* and by a tag that stands for its numbers.
MemoryTexts == {"I observed.", "I spent."}
EmbeddingInputs ==
    { [dim |-> n, content |-> c] :
          n \in {0, EMBEDDING_DIM - 1, EMBEDDING_DIM, EMBEDDING_DIM + 1, 2 * EMBEDDING_DIM},
          c \in {"v1", "v2"} }

\* The state of the persistence helpers that the tick pipeline does not use.
MemoryInit ==
    /\ sims = [s \in SimIds |-> IF s = 1 THEN NewSimulation ELSE NoSimulation]
    /\ agents = SeededAgents(1, <<0, 50>>)
    /\ events = <<>>
    /\ metrics = <<>>
    /\ req = IdleReq
    /\ ops = [count |-> 0, requests |-> 0, crashes |-> 0]
    /\ handled = {}
    /\ applied = <<>>
    /\ fn = [op |-> "add_long_term_memory", calls |-> 0, memories |-> <<>>,
             raised |-> FALSE, fault |-> "none",
             agent_id |-> 1, memory_text |-> "I observed.",
             memory_embedding |-> [dim |-> EMBEDDING_DIM, content |-> "v1"]]

\* Mutant: the length of the embedding is not checked.
DimensionOkAny(memory_embedding) == memory_embedding.dim >= 0

\* add_long_term_memory, the validation of the embedding dimension
DimensionOk(memory_embedding) == memory_embedding.dim = EMBEDDING_DIM

\* add_long_term_memory: the length check, then the row is added and
\* committed.  A failed commit raises and persists nothing.
add_long_term_memory(a, memory_text, memory_embedding, f) ==
    /\ fn.op = "add_long_term_memory"
    /\ fn.calls < MaxMemoryCalls
    /\ f \in {"none", "commit"}
    /\ LET ok == DimensionOk(memory_embedding) /\ f = "none"
           row == [agent_id |-> a, simulation_id |-> agents[a].simulation_id,
                   memory_text |-> memory_text, memory_embedding |-> memory_embedding]
       IN  fn' = [fn EXCEPT !.calls = @ + 1,
                            !.memories = IF ok THEN Append(@, row) ELSE @,
                            !.raised = ~ok,
                            !.fault = IF DimensionOk(memory_embedding) THEN f ELSE "none",
                            !.agent_id = a,
                            !.memory_text = memory_text,
                            !.memory_embedding = memory_embedding]
    /\ UNCHANGED <<sims, agents, events, metrics, req, ops, handled, applied>>

MemoryNext ==
    \E a \in DOMAIN agents, t \in MemoryTexts, e \in EmbeddingInputs, f \in {"none", "commit"} :
        add_long_term_memory(a, t, e, f)

MemorySpec == MemoryInit /\ [][MemoryNext]_vars

\* ------------------------------------------------- services/metrics_service.py
\* calculate_gini computes in IEEE 754 doubles (dtype=np.float64): every sum
\* and every product is rounded to 53 significant bits, ties to even.  A
\* double is kept as neg, m, e with value (-1)^neg * m * 2^e, where m is a
\* natural number of exactly 53 bits, or no bits for zero.  Natural numbers
\* are sequences of limbs of LimbBits bits, lowest limb first, the highest
\* limb not 0.  The incomes and the results in reach are far from the ends of
\* the exponent range: overflow, subnormals and the sign of zero are left out.
LimbBits == 15
LimbBase == 2^LimbBits
SignificandBits == 53

\* Incomes a call of calculate_gini is given, and how many of them.
MaxIncomes == 5
IncomeValues == {0, 50, 100}

RECURSIVE Trim(_)
Trim(x) == IF x # <<>> /\ x[Len(x)] = 0 THEN Trim(SubSeq(x, 1, Len(x) - 1)) ELSE x

NatOf(v) ==
    Trim(<<v % LimbBase, (v \div LimbBase) % LimbBase, v \div (LimbBase * LimbBase)>>)

RECURSIVE NatAddCarry(_, _, _)
NatAddCarry(x, y, c) ==
    IF x = <<>> /\ y = <<>> THEN (IF c = 0 THEN <<>> ELSE <<c>>)
    ELSE LET a == IF x = <<>> THEN 0 ELSE Head(x)
             b == IF y = <<>> THEN 0 ELSE Head(y)
             t == a + b + c
         IN  <<t % LimbBase>> \o NatAddCarry(IF x = <<>> THEN <<>> ELSE Tail(x),
                                             IF y = <<>> THEN <<>> ELSE Tail(y),
                                             t \div LimbBase)

NatAdd(x, y) == NatAddCarry(x, y, 0)

\* x - y - b for x >= y + b
RECURSIVE NatSubBorrow(_, _, _)
NatSubBorrow(x, y, b) ==
    IF x = <<>> THEN <<>>
    ELSE LET t == Head(x) - (IF y = <<>> THEN 0 ELSE Head(y)) - b
         IN  <<(t + LimbBase) % LimbBase>>
             \o NatSubBorrow(Tail(x), IF y = <<>> THEN <<>> ELSE Tail(y),
                             IF t < 0 THEN 1 ELSE 0)

NatSub(x, y) == Trim(NatSubBorrow(x, y, 0))

RECURSIVE NatLess(_, _)
NatLess(x, y) ==
    IF Len(x) # Len(y) THEN Len(x) < Len(y)
    ELSE IF x = <<>> THEN FALSE
    ELSE IF x[Len(x)] # y[Len(y)] THEN x[Len(x)] < y[Len(y)]
    ELSE NatLess(SubSeq(x, 1, Len(x) - 1), SubSeq(y, 1, Len(y) - 1))

\* x * k + c for 0 <= k <= LimbBase
RECURSIVE NatMulSmall(_, _, _)
NatMulSmall(x, k, c) ==
    IF x = <<>> THEN (IF c = 0 THEN <<>> ELSE <<c>>)
    ELSE LET t == Head(x) * k + c
         IN  <<t % LimbBase>> \o NatMulSmall(Tail(x), k, t \div LimbBase)

BitLength(x) ==
    IF x = <<>> THEN 0
    ELSE LimbBits * (Len(x) - 1)
         + CHOOSE k \in 1..LimbBits : 2^(k - 1) <= x[Len(x)] /\ x[Len(x)] < 2^k

Bit(x, i) ==
    LET j == i \div LimbBits + 1
    IN  IF j > Len(x) THEN 0 ELSE (x[j] \div 2^(i % LimbBits)) % 2

ShiftLeft(x, s) ==
    IF x = <<>> THEN <<>>
    ELSE [i \in 1..(s \div LimbBits) |-> 0] \o NatMulSmall(x, 2^(s % LimbBits), 0)

ShiftRight(x, s) ==
    LET q == s \div LimbBits
        r == s % LimbBits
        y == IF q >= Len(x) THEN <<>> ELSE SubSeq(x, q + 1, Len(x))
    IN  Trim([i \in 1..Len(y) |->
                 (y[i] \div 2^r)
                 + (IF i < Len(y) THEN (y[i + 1] % 2^r) * 2^(LimbBits - r) ELSE 0)])

FZero == [neg |-> FALSE, m |-> <<>>, e |-> 0]

\* The double nearest to (-1)^neg * M * 2^e, ties to even.
RoundToDouble(neg, M, e) ==
    LET L == BitLength(M)
        s == L - SignificandBits
        q == ShiftRight(M, s)
        up == /\ Bit(M, s - 1) = 1
              /\ \/ Bit(q, 0) = 1
                 \/ \E j \in 0..(s - 2) : Bit(M, j) = 1
        qr == IF up THEN NatAdd(q, <<1>>) ELSE q
    IN  IF M = <<>> THEN FZero
        ELSE IF L <= SignificandBits
        THEN [neg |-> neg, m |-> ShiftLeft(M, SignificandBits - L),
              e |-> e - (SignificandBits - L)]
        ELSE IF BitLength(qr) > SignificandBits
        THEN [neg |-> neg, m |-> ShiftRight(qr, 1), e |-> e + s + 1]
        ELSE [neg |-> neg, m |-> qr, e |-> e + s]

\* float(v) of a whole number
FromInt(v) == RoundToDouble(v < 0, NatOf(IF v < 0 THEN -v ELSE v), 0)

FNeg(x) == IF x.m = <<>> THEN x ELSE [x EXCEPT !.neg = ~@]

\* x + y in doubles
FAdd(x, y) ==
    IF x.m = <<>> THEN y
    ELSE IF y.m = <<>> THEN x
    ELSE LET e == Min(x.e, y.e)
             X == ShiftLeft(x.m, x.e - e)
             Y == ShiftLeft(y.m, y.e - e)
         IN  IF x.neg = y.neg THEN RoundToDouble(x.neg, NatAdd(X, Y), e)
             ELSE IF X = Y THEN FZero
             ELSE IF NatLess(Y, X) THEN RoundToDouble(x.neg, NatSub(X, Y), e)
             ELSE RoundToDouble(y.neg, NatSub(Y, X), e)

\* k * x in doubles for a whole number k
FMulInt(k, x) ==
    IF k = 0 \/ x.m = <<>> THEN FZero
    ELSE RoundToDouble(x.neg # (k < 0), NatMulSmall(x.m, IF k < 0 THEN -k ELSE k, 0), x.e)

FLess(x, y) == FAdd(x, FNeg(y)).neg

\* The double of the literal 0.0000001: 0x1AD7F29ABCAF48 * 2^-76.
Epsilon == [neg |-> FALSE, m |-> <<12104, 13689, 24522, 214>>, e |-> -76]

\* np.amin
RECURSIVE FMin(_)
FMin(a) ==
    IF Len(a) = 1 THEN a[1]
    ELSE LET rest == FMin(Tail(a)) IN IF FLess(rest, a[1]) THEN rest ELSE a[1]

RECURSIVE Insert(_, _)
Insert(x, a) ==
    IF a = <<>> THEN <<x>>
    ELSE IF FLess(a[1], x) THEN <<a[1]>> \o Insert(x, Tail(a))
    ELSE <<x>> \o a

\* np.sort, ascending
RECURSIVE np_sort(_)
np_sort(a) == IF a = <<>> THEN <<>> ELSE Insert(Head(a), np_sort(Tail(a)))

\* np.sum: fewer than 8 numbers are added from left to right, from 0.0.
RECURSIVE SumFrom(_, _)
SumFrom(acc, a) == IF a = <<>> THEN acc ELSE SumFrom(FAdd(acc, Head(a)), Tail(a))

np_sum(a) == SumFrom(FZero, a)

NoGini == [none |-> TRUE, num |-> FZero, den |-> FZero]

\* calculate_gini.  The result is None or the double num / den; the quotient is
\* kept by its two operands: den is positive, so the quotient is negative
\* when num is, 0.0 when num is, and below 1.0 when num < den.
calculate_gini(incomes) ==
    IF incomes = <<>> THEN NoGini
    ELSE LET array == [i \in DOMAIN incomes |-> FromInt(incomes[i])]
             low == FMin(array)
             shifted == IF low.neg THEN [i \in DOMAIN array |-> FAdd(array[i], FNeg(low))]
                        ELSE array
             sorted == np_sort([i \in DOMAIN shifted |-> FAdd(shifted[i], Epsilon)])
             n == Len(sorted)
         IN  [none |-> FALSE,
              num |-> np_sum([i \in 1..n |-> FMulInt(2 * i - n - 1, sorted[i])]),
              den |-> FMulInt(n, np_sum(sorted))]

\* The income sequences of up to n values.
RECURSIVE IncomeSeqs(_)
IncomeSeqs(n) ==
    IF n = 0 THEN {<<>>}
    ELSE LET shorter == IncomeSeqs(n - 1)
         IN  shorter \cup {Append(s, v) : s \in {t \in shorter : Len(t) = n - 1},
                                          v \in IncomeValues}

GiniInit ==
    /\ sims = [s \in SimIds |-> IF s = 1 THEN NewSimulation ELSE NoSimulation]
    /\ agents = SeededAgents(1, <<0, 50>>)
    /\ events = <<>>
    /\ metrics = <<>>
    /\ req = IdleReq
    /\ ops = [count |-> 0, requests |-> 0, crashes |-> 0]
    /\ handled = {}
    /\ applied = <<>>
    /\ \E incomes \in IncomeSeqs(MaxIncomes) :
          fn = [op |-> "calculate_gini", incomes |-> incomes, called |-> FALSE,
                result |-> NoGini]

CalculateGini ==
    /\ fn.op = "calculate_gini"
    /\ ~fn.called
    /\ fn' = [fn EXCEPT !.called = TRUE, !.result = calculate_gini(fn.incomes)]
    /\ UNCHANGED <<sims, agents, events, metrics, req, ops, handled, applied>>

GiniSpec == GiniInit /\ [][CalculateGini]_vars

\* calculate_belief_variance.  The beliefs values a call can meet: no mapping,
\* a mapping without the vector key, a vector that is no list, and lists of
\* numbers (in tenths), one of them of another length.
BeliefsOf(isdict, hasVector, vectorIsList, vector) ==
    [isdict |-> isdict, hasSentiment |-> FALSE, sentiment |-> 0,
     hasVector |-> hasVector, vectorIsList |-> vectorIsList,
     political_ideology_vector |-> vector,
     others |-> IF isdict THEN SeededOtherBeliefs ELSE <<>>]

BeliefsNoVector == BeliefsOf(TRUE, FALSE, FALSE, <<>>)
BeliefsVectorNotList == BeliefsOf(TRUE, TRUE, FALSE, <<>>)

BeliefsInputs ==
    {BeliefsNotDict, BeliefsNoVector, BeliefsVectorNotList,
     BeliefsOf(TRUE, TRUE, TRUE, <<2, 7>>), BeliefsOf(TRUE, TRUE, TRUE, <<5, 3>>),
     BeliefsOf(TRUE, TRUE, TRUE, <<4>>)}

\* Agents in a call of calculate_belief_variance.
MaxVarianceAgents == 3

RECURSIVE SumSeq(_)
SumSeq(s) == IF s = <<>> THEN 0 ELSE Head(s) + SumSeq(Tail(s))

NoVariance == [none |-> TRUE, num |-> 0, den |-> 1]

\* Mutant: no valid vector gives None.
ZeroVarianceAsNone == NoVariance

\* return 0.0 when no agent carries a valid vector
ZeroVariance == [none |-> FALSE, num |-> 0, den |-> 1]

\* calculate_belief_variance over the beliefs of the agents.  np.array raises
\* for lists of different lengths and the except branch returns None.  The
\* mean over the dimensions of the population variance is kept as the
\* fraction num / den, without the rounding of the doubles.
calculate_belief_variance(beliefs) ==
    IF beliefs = <<>> THEN NoVariance
    ELSE LET kept == SelectIds(1, Len(beliefs), {i \in DOMAIN beliefs : ValidVector(beliefs[i])})
             belief_vectors == [k \in 1..Len(kept) |-> beliefs[kept[k]].political_ideology_vector]
             n == Len(belief_vectors)
             dims == Len(belief_vectors[1])
             column(d) == [k \in 1..n |-> belief_vectors[k][d]]
             squares(d) == [k \in 1..n |-> belief_vectors[k][d] * belief_vectors[k][d]]
         IN  IF belief_vectors = <<>> THEN ZeroVariance
             ELSE IF \E k \in 1..n : Len(belief_vectors[k]) # dims THEN NoVariance
             ELSE [none |-> FALSE,
                   num |-> SumSeq([d \in 1..dims |->
                               n * SumSeq(squares(d)) - SumSeq(column(d)) * SumSeq(column(d))]),
                   den |-> dims * n * n]

\* The sequences of up to n beliefs values.
RECURSIVE BeliefsSeqs(_)
BeliefsSeqs(n) ==
    IF n = 0 THEN {<<>>}
    ELSE LET shorter == BeliefsSeqs(n - 1)
         IN  shorter \cup {Append(s, b) : s \in {t \in shorter : Len(t) = n - 1},
                                          b \in BeliefsInputs}

VarianceInit ==
    /\ sims = [s \in SimIds |-> IF s = 1 THEN NewSimulation ELSE NoSimulation]
    /\ agents = SeededAgents(1, <<0, 50>>)
    /\ events = <<>>
    /\ metrics = <<>>
    /\ req = IdleReq
    /\ ops = [count |-> 0, requests |-> 0, crashes |-> 0]
    /\ handled = {}
    /\ applied = <<>>
    /\ \E beliefs \in BeliefsSeqs(MaxVarianceAgents) :
          fn = [op |-> "calculate_belief_variance", beliefs |-> beliefs, called |-> FALSE,
                result |-> NoVariance]

CalculateBeliefVariance ==
    /\ fn.op = "calculate_belief_variance"
    /\ ~fn.called
    /\ fn' = [fn EXCEPT !.called = TRUE, !.result = calculate_belief_variance(fn.beliefs)]
    /\ UNCHANGED <<sims, agents, events, metrics, req, ops, handled, applied>>

VarianceSpec == VarianceInit /\ [][CalculateBeliefVariance]_vars

\* ------------------------------------------------- overlapping advance_tick calls
\* Two executions of advance_tick_endpoint on the same simulation, each with
\* a session of its own, in every interleaving of their database statements.
\* A statement reads what is committed when it runs.  A commit expires the
\* objects of its session, the simulation among them, so the next read of
\* simulation.current_tick loads the stored value; the local current_tick of
\* the endpoint is read once, at the start.  An UPDATE writes the changed
\* columns of the rows the session holds.  No statement fails here and every
\* oracle call fails, so every decision is the fallback.
Procs == {1, 2}
RaceSim == 1
RaceAgents == SeededAgents(RaceSim, <<0, 50>>)

RaceIdle ==
    [pc |-> "idle", current_tick |-> 0, sim_tick |-> 0, expired |-> FALSE,
     pending_events |-> <<>>, idx |-> 0, session |-> <<>>,
     seen |-> 0, order |-> 0, result |-> NoTick]

RaceInit ==
    /\ sims = [s \in SimIds |-> IF s = RaceSim THEN NewSimulation ELSE NoSimulation]
    /\ agents = RaceAgents
    /\ events = <<EventRow(RaceSim, UBI100At0)>>
    /\ metrics = <<>>
    /\ req = [p \in Procs |-> RaceIdle]
    /\ ops = [count |-> 0, requests |-> 0, crashes |-> 0]
    /\ handled = {}
    /\ applied = <<>>
    /\ fn = NoCall

\* simulation.current_tick as the session of r reads it
ReadTick(r) == IF r.expired THEN sims[RaceSim].current_tick ELSE r.sim_tick

\* db_simulation = get_simulation(...); current_tick = db_simulation.current_tick
RaceStart(p) ==
    /\ req[p].pc = "idle"
    /\ req' = [req EXCEPT ![p] = [@ EXCEPT !.pc = "events",
                                           !.current_tick = sims[RaceSim].current_tick,
                                           !.sim_tick = sims[RaceSim].current_tick]]
    /\ UNCHANGED <<sims, agents, events, metrics, ops, handled, applied, fn>>

\* process_events_for_tick, the selection
RaceSelect(p) ==
    /\ req[p].pc = "events"
    /\ LET found == get_events(events, RaceSim, "pending", ReadTick(req[p]), EventLimit)
       IN  req' = [req EXCEPT ![p] = IF found = <<>> THEN [@ EXCEPT !.pc = "metrics_pre"]
                                     ELSE [@ EXCEPT !.pc = "trigger", !.pending_events = found,
                                                    !.idx = 1]]
    /\ UNCHANGED <<sims, agents, events, metrics, ops, handled, applied, fn>>

\* update_event_status(triggered), whatever the stored status is, and commit
RaceTrigger(p) ==
    /\ req[p].pc = "trigger"
    /\ events' = update_event_status(events, req[p].pending_events[req[p].idx], "triggered")
    /\ req' = [req EXCEPT ![p] = [@ EXCEPT !.pc = "load", !.expired = TRUE]]
    /\ handled' = LeftPending(handled, events')
    /\ UNCHANGED <<sims, agents, metrics, ops, applied, fn>>

RaceNextEvent(r) ==
    IF r.idx < Len(r.pending_events) THEN [r EXCEPT !.pc = "trigger", !.idx = @ + 1]
    ELSE [r EXCEPT !.pc = "metrics_pre"]

\* apply_ubi_event up to its loop: the parameters are validated and the agents
\* are loaded into the session; an event of another type or with invalid
\* parameters is marked failed.  seen notes how many payments of the event
\* were committed when the agents were loaded.
RaceLoad(p) ==
    /\ req[p].pc = "load"
    /\ LET e == req[p].pending_events[req[p].idx]
           r == [req[p] EXCEPT !.sim_tick = ReadTick(req[p]), !.expired = FALSE]
       IN  IF Dispatch(events[e].event_type) = "apply_ubi_event"
              /\ UBIEventParams(events[e].parameters)
           THEN /\ req' = [req EXCEPT ![p] = [r EXCEPT !.pc = "pay", !.session = agents,
                                                       !.seen = Len(applied)]]
                /\ UNCHANGED events
           ELSE /\ events' = update_event_status(events, e, "failed")
                /\ req' = [req EXCEPT ![p] = RaceNextEvent([r EXCEPT !.expired = TRUE])]
    /\ UNCHANGED <<sims, agents, metrics, ops, handled, applied, fn>>

\* Mutant: the amount is added to the stored income when the payment is written.
FlushPaymentOnStored(rows, session, s, amount) ==
    [a \in DOMAIN rows |->
        IF rows[a].simulation_id = s /\ a \in DOMAIN session
        THEN [rows[a] EXCEPT !.demographics = PayAgent(rows[a], amount).demographics]
        ELSE rows[a]]

\* apply_ubi_event, the loop and the commit: the demographics of the agents
\* the session loaded, with the amount added, replace the stored demographics.
FlushPayment(rows, session, s, amount) ==
    [a \in DOMAIN rows |->
        IF rows[a].simulation_id = s /\ a \in DOMAIN session
        THEN [rows[a] EXCEPT !.demographics = PayAgent(session[a], amount).demographics]
        ELSE rows[a]]

\* order notes the how-manieth committed payment of the event this one is.
RacePay(p) ==
    /\ req[p].pc = "pay"
    /\ LET e == req[p].pending_events[req[p].idx]
       IN  /\ agents' = FlushPayment(agents, req[p].session, RaceSim,
                                     events[e].parameters.amount_per_agent.val)
           /\ events' = update_event_status(events, e, "processed")
           /\ applied' = Append(applied, e)
           /\ req' = [req EXCEPT ![p] = RaceNextEvent([@ EXCEPT !.expired = TRUE,
                                                                !.order = Len(applied) + 1])]
    /\ UNCHANGED <<sims, metrics, ops, handled, fn>>

\* The decision log and the beliefs of the rows the session changed replace
\* the stored ones.
RaceFlush(rows, session) ==
    [a \in DOMAIN rows |->
        IF a \in DOMAIN session
        THEN [rows[a] EXCEPT !.short_term_memory = session[a].short_term_memory,
                             !.beliefs = session[a].beliefs]
        ELSE rows[a]]

\* calculate_and_store_metrics before and after the agent updates
RaceMetrics(p) ==
    /\ req[p].pc \in {"metrics_pre", "metrics_post"}
    /\ LET ids == get_agents(agents, RaceSim, AgentLimit)
           held == IF req[p].pc = "metrics_post" THEN req[p].session ELSE <<>>
           view == RaceFlush(agents, held)
       IN  /\ metrics' = Append(metrics, [simulation_id |-> RaceSim, tick |-> ReadTick(req[p]),
                                          incomes |-> CollectIncomes(view, ids),
                                          vectors |-> CollectVectors(view, ids)])
           /\ agents' = view
           /\ req' = [req EXCEPT ![p] = [@ EXCEPT !.pc = StageAfter(req[p].pc),
                                                  !.sim_tick = ReadTick(req[p]),
                                                  !.expired = TRUE, !.session = <<>>]]
    /\ UNCHANGED <<sims, events, ops, handled, applied, fn>>

\* run_agent_updates: the agents are loaded and changed in the session
RaceAgentUpdates(p) ==
    /\ req[p].pc = "agents"
    /\ req' = [req EXCEPT ![p] =
                  [@ EXCEPT !.pc = "metrics_post",
                            !.sim_tick = ReadTick(req[p]), !.expired = FALSE,
                            !.session = [a \in {b \in DOMAIN agents :
                                                   agents[b].simulation_id = RaceSim} |->
                                            UpdateAgentState(agents[a], ReadTick(req[p]),
                                                             FallbackDecision)]]]
    /\ UNCHANGED <<sims, agents, events, metrics, ops, handled, applied, fn>>

\* Mutant: the tick written is one more than the stored tick.
TickToWriteFromStored(current_tick, stored) == new_tick(stored)

\* The tick update_simulation is given: one more than the local current_tick.
TickToWrite(current_tick, stored) == new_tick(current_tick)

\* update_simulation(db, simulation_id, SimulationUpdate(current_tick=new_tick))
RaceIncrementTick(p) ==
    /\ req[p].pc = "incr"
    /\ LET t == TickToWrite(req[p].current_tick, sims[RaceSim].current_tick)
       IN  /\ sims' = [sims EXCEPT ![RaceSim].current_tick = t]
           /\ req' = [req EXCEPT ![p] = [@ EXCEPT !.pc = "returned", !.result = t,
                                                  !.sim_tick = t, !.expired = FALSE]]
    /\ UNCHANGED <<agents, events, metrics, ops, handled, applied, fn>>

RaceNext ==
    \E p \in Procs :
        \/ RaceStart(p)
        \/ RaceSelect(p)
        \/ RaceTrigger(p)
        \/ RaceLoad(p)
        \/ RacePay(p)
        \/ RaceMetrics(p)
        \/ RaceAgentUpdates(p)
        \/ RaceIncrementTick(p)

RaceSpec == RaceInit /\ [][RaceNext]_vars

\* ------------------------------------------------- parse_structured_decision
\* The function applied to one response text.  A response is made of an
\* optional lead (prose or the opening json fence), one JSON object and an
\* optional tail (prose or a closing fence).  The object holds, in this order
\* and each of them optional, action, dialogue, sentiment_shift (in tenths),
\* policy_opinion_shift and spending_ratio_shift.
Member(k, values) == {<<>>} \cup {<<Pair(k, v)>> : v \in values}

PolicyMembers ==
    {<<>>,
     <<Key("policy_opinion_shift"), Open, Close>>,
     <<Key("policy_opinion_shift"), Open, Pair("ubi", Num(1)), Close>>}

ObjectTexts ==
    { <<Open>> \o action \o dialogue \o shift \o policy \o spending \o <<Close>> :
          action \in Member("action", {Str("observe"), Num(3)}),
          dialogue \in Member("dialogue", {Str("fine")}),
          shift \in Member("sentiment_shift", {Num(1), Num(15), Num(-12)}),
          policy \in PolicyMembers,
          spending \in Member("spending_ratio_shift", {Num(2)}) }

Leads == {<<>>, <<Prose>>, <<FenceJson>>}
Tails == {<<>>, <<Prose>>, <<Fence>>}

ParseInit ==
    /\ sims = [s \in SimIds |-> IF s = 1 THEN NewSimulation ELSE NoSimulation]
    /\ agents = SeededAgents(1, <<0, 50>>)
    /\ events = <<>>
    /\ metrics = <<>>
    /\ req = IdleReq
    /\ ops = [count |-> 0, requests |-> 0, crashes |-> 0]
    /\ handled = {}
    /\ applied = <<>>
    /\ \E lead \in Leads, object \in ObjectTexts, tail \in Tails :
          fn = [op |-> "parse_structured_decision", raw |-> lead \o object \o tail,
                object |-> object, called |-> FALSE, raised |-> FALSE,
                decision |-> FallbackDecision]

\* decision = parse_structured_decision(llm_response_raw, LLMDecision) in the
\* try of run_agent_updates: the parsed decision, or the fallback when the
\* parsing raised.
ParseStructuredDecision ==
    /\ fn.op = "parse_structured_decision"
    /\ ~fn.called
    /\ fn' = [fn EXCEPT !.called = TRUE,
                        !.raised = parse_structured_decision(fn.raw).raised,
                        !.decision = OracleDecision([outcome |-> "text", text |-> fn.raw])]
    /\ UNCHANGED <<sims, agents, events, metrics, req, ops, handled, applied>>

ParseSpec == ParseInit /\ [][ParseStructuredDecision]_vars

\* ------------------------------------------------- api/agent_routes.py
\* POST /agents/{id}/decide, the whole handler.  The request has a session of
\* its own.
MaxDecideCalls == 2

\* generate_agent_decision: a validated LLMAgentDecision as a dict (the
\* ratios in tenths), or a dict with the key "error".
DecideDecisions ==
    { [action |-> a, sentiment |-> "neutral", policy_opinion_shift |-> 0, spending_ratio |-> 5] :
          a \in {"observe", "spend"} }
ErrorDecision == [error |-> "JSONDecodeError"]

\* generate_embedding: the embedding, or None when the call raised.
NoEmbedding == [dim |-> -1, content |-> "None"]
DecideEmbeddings ==
    {NoEmbedding, [dim |-> EMBEDDING_DIM, content |-> "v1"], [dim |-> EMBEDDING_DIM - 1, content |-> "v1"]}

DecideInit ==
    /\ sims = [s \in SimIds |-> IF s = 1 THEN NewSimulation ELSE NoSimulation]
    /\ agents = <<NewAgent(1, 0), VeteranAgent(1, 50)>>
    /\ events = <<>>
    /\ metrics = <<>>
    /\ req = IdleReq
    /\ ops = [count |-> 0, requests |-> 0, crashes |-> 0]
    /\ handled = {}
    /\ applied = <<>>
    /\ fn = [op |-> "test_agent_decision", calls |-> 0, memories |-> <<>>,
             agent_id |-> 1, decision |-> ErrorDecision, embedding |-> NoEmbedding,
             memory_fault |-> "none", stm_fault |-> "none",
             memory_stored |-> FALSE, memory_error |-> FALSE,
             stm_updated |-> FALSE, stm_error |-> FALSE]

\* test_agent_decision.  Step 4 stores the long-term memory when there is an
\* embedding: add_long_term_memory raises on a wrong dimension before it
\* touches the session, or commits the row; the except branch records the
\* error and does not roll the session back, so after a rejected commit the
\* session's transaction is inactive.  A commit and a failed flush both expire
\* the loaded db_agent.  Step 5 appends the decision to the list of
\* current_stm, a shallow copy that shares its last_decisions list with the
\* loaded value, cuts the list to max_stm_decisions (a new list), assigns it
\* and commits: the UPDATE carries short_term_memory when the assigned value
\* differs from the loaded one, which it does when the loaded one was expired
\* or the list was replaced; the except branch rolls back.
test_agent_decision(a, d, e, fm, fs) ==
    /\ fn.op = "test_agent_decision"
    /\ fn.calls < MaxDecideCalls
    /\ a \in DOMAIN agents
    /\ fm \in {"none", "commit"}
    /\ fs \in {"none", "commit"}
    /\ LET is_error == "error" \in DOMAIN d
           embedded == e # NoEmbedding
           value_error == embedded /\ ~DimensionOk(e)
           memory_rejected == embedded /\ DimensionOk(e) /\ fm = "commit"
           memory_stored_flag == embedded /\ DimensionOk(e) /\ fm = "none"
           expired == memory_stored_flag \/ memory_rejected
           inactive == memory_rejected
           current == agents[a].short_term_memory.last_decisions
           entry == [tick |-> NoTick, decision |-> d, memory_stored |-> memory_stored_flag]
           appended == Append(current, entry)
           replaced == Len(appended) > MaxStmDecisions
           assigned == LastN(appended, MaxStmDecisions)
           stm_raised == inactive \/ fs = "commit"
           written == ~stm_raised /\ (expired \/ replaced)
           row == [agent_id |-> a, simulation_id |-> agents[a].simulation_id,
                   memory_text |-> d.action, memory_embedding |-> e]
       IN  IF is_error
           THEN /\ fn' = [fn EXCEPT !.calls = @ + 1, !.agent_id = a, !.decision = d,
                                    !.embedding = NoEmbedding,
                                    !.memory_fault = "none", !.stm_fault = "none",
                                    !.memory_stored = FALSE, !.memory_error = FALSE,
                                    !.stm_updated = FALSE, !.stm_error = FALSE]
                /\ UNCHANGED agents
           ELSE /\ fn' = [fn EXCEPT !.calls = @ + 1, !.agent_id = a, !.decision = d,
                                    !.embedding = e,
                                    !.memory_fault = IF embedded /\ DimensionOk(e) THEN fm ELSE "none",
                                    !.stm_fault = IF inactive THEN "none" ELSE fs,
                                    !.memories = IF memory_stored_flag THEN Append(@, row) ELSE @,
                                    !.memory_stored = memory_stored_flag,
                                    !.memory_error = value_error \/ memory_rejected,
                                    !.stm_updated = ~stm_raised,
                                    !.stm_error = stm_raised]
                /\ agents' = IF written
                             THEN [agents EXCEPT ![a].short_term_memory.last_decisions = assigned]
                             ELSE agents
    /\ UNCHANGED <<sims, events, metrics, req, ops, handled, applied>>

DecideNext ==
    \E a \in DOMAIN agents, d \in DecideDecisions \cup {ErrorDecision}, e \in DecideEmbeddings,
       fm \in {"none", "commit"}, fs \in {"none", "commit"} :
        test_agent_decision(a, d, e, fm, fs)

DecideSpec == DecideInit /\ [][DecideNext]_vars

\* ------------------------------------------------- services/seeding_service.py
\* _create_random_connections over the agents seeded before it.  The ordered
\* pairs of distinct agents in the order of the two loops.
PairsOf(ids) ==
    LET n == Len(ids)
        all == [k \in 1..(n * n) |-> <<ids[((k - 1) \div n) + 1], ids[((k - 1) % n) + 1]>>]
        keep == SelectIds(1, n * n, {k \in 1..(n * n) : all[k][1] # all[k][2]})
    IN  [j \in 1..Len(keep) |-> all[keep[j]]]

\* What happens to a pair: random.random() is not below the probability, the
\* connection is created, or create_agent_connection raises.
PairOutcomes == {"skip", "create", "raise"}

ConnInit ==
    /\ sims = [s \in SimIds |-> IF s = 1 THEN NewSimulation ELSE NoSimulation]
    /\ agents = SeededAgents(1, <<0, 50, 200>>)
    /\ events = <<>>
    /\ metrics = <<>>
    /\ req = IdleReq
    /\ ops = [count |-> 0, requests |-> 0, crashes |-> 0]
    /\ handled = {}
    /\ applied = <<>>
    /\ fn = [op |-> "create_random_connections", pc |-> "loop",
             pairs |-> PairsOf(get_agents(agents, 1, AgentLimit)), idx |-> 1,
             pending |-> <<>>, connections |-> <<>>, created |-> <<>>,
             created_count |-> 0, failures |-> 0, reported |-> NoTick]

\* create_agent_connection: the row is added to the session and neither
\* flushed nor committed.
create_agent_connection(pending, source_agent_id, target_agent_id) ==
    Append(pending, [source_agent_id |-> source_agent_id, target_agent_id |-> target_agent_id,
                     relationship_type |-> "random"])

\* One pass of the inner loop.  The except branch rolls the session back,
\* which drops every row that was added and not yet committed.  created is
\* the history of the calls that returned.
ConnectPair(outcome) ==
    /\ fn.op = "create_random_connections"
    /\ fn.pc = "loop"
    /\ fn.idx <= Len(fn.pairs)
    /\ LET p == fn.pairs[fn.idx]
           added == create_agent_connection(fn.pending, p[1], p[2])
       IN  fn' = [fn EXCEPT
                     !.idx = @ + 1,
                     !.pending = CASE outcome = "skip" -> @
                                   [] outcome = "create" -> added
                                   [] outcome = "raise" -> <<>>,
                     !.created = IF outcome = "create"
                                 THEN create_agent_connection(@, p[1], p[2]) ELSE @,
                     !.created_count = IF outcome = "create" THEN @ + 1 ELSE @,
                     !.failures = IF outcome = "raise" THEN @ + 1 ELSE @]
    /\ UNCHANGED <<sims, agents, events, metrics, req, ops, handled, applied>>

\* The commit after the loops: the rows of the session are written and the
\* count is logged, or the commit fails and the session is rolled back.
CommitConnections(f) ==
    /\ fn.op = "create_random_connections"
    /\ fn.pc = "loop"
    /\ fn.idx > Len(fn.pairs)
    /\ f \in {"none", "commit"}
    /\ fn' = IF f = "none"
             THEN [fn EXCEPT !.pc = "done", !.connections = @ \o fn.pending, !.pending = <<>>,
                             !.reported = fn.created_count]
             ELSE [fn EXCEPT !.pc = "failed", !.pending = <<>>]
    /\ UNCHANGED <<sims, agents, events, metrics, req, ops, handled, applied>>

ConnNext ==
    \/ \E outcome \in PairOutcomes : ConnectPair(outcome)
    \/ \E f \in {"none", "commit"} : CommitConnections(f)

ConnSpec == ConnInit /\ [][ConnNext]_vars

\* ------------------------------------------------- api/simulation_routes.py
\* The operations that write a simulation row.  A SimulationUpdate is kept as
\* the mapping of the fields that were set, as model_dump(exclude_unset=True)
\* returns it.
MaxStatusCalls == 4
None == "None"

\* The status values named in the comments of the schema and the model.
NamedStatuses == {"initialized", "running", "stopped", "completed"}

\* The status a request body can carry: any string, or none (null or absent).
StatusBodies == NamedStatuses \cup {"reset", "", None}

StatusInit ==
    /\ sims = [s \in SimIds |-> NoSimulation]
    /\ agents = <<>>
    /\ events = <<>>
    /\ metrics = <<>>
    /\ req = IdleReq
    /\ ops = [count |-> 0, requests |-> 0, crashes |-> 0]
    /\ handled = {}
    /\ applied = <<>>
    /\ fn = [op |-> "update_simulation", calls |-> 0, sim |-> 1, update |-> <<>>,
             raised |-> FALSE]

\* update_simulation: every field that was set is assigned with setattr and
\* the row is committed.  The status column is nullable=False, so a status of
\* None is refused by the commit and the row stays as it was.
update_simulation(row, simulation_update) ==
    LET set == DOMAIN simulation_update
        status == IF "status" \in set THEN simulation_update.status ELSE row.status
        current_tick == IF "current_tick" \in set THEN simulation_update.current_tick
                        ELSE row.current_tick
    IN  IF status = None THEN row
        ELSE [row EXCEPT !.status = status, !.current_tick = current_tick]

\* POST /simulations
CreateSimulationRow(s) ==
    /\ fn.op = "update_simulation"
    /\ fn.calls < MaxStatusCalls
    /\ ~sims[s].exists
    /\ sims' = [sims EXCEPT ![s] = NewSimulation]
    /\ fn' = [fn EXCEPT !.calls = @ + 1, !.sim = s, !.update = <<>>, !.raised = FALSE]
    /\ UNCHANGED <<agents, events, metrics, req, ops, handled, applied>>

\* PUT /simulations/{id}/status: allowed_updates = SimulationUpdate(status=
\* status_update.status) sets the status field whatever its value, None too.
update_simulation_status_endpoint(s, st) ==
    /\ fn.op = "update_simulation"
    /\ fn.calls < MaxStatusCalls
    /\ sims[s].exists
    /\ LET allowed_updates == [status |-> st]
       IN  /\ sims' = [sims EXCEPT ![s] = update_simulation(@, allowed_updates)]
           /\ fn' = [fn EXCEPT !.calls = @ + 1, !.sim = s, !.update = allowed_updates,
                               !.raised = (st = None)]
    /\ UNCHANGED <<agents, events, metrics, req, ops, handled, applied>>

\* POST /simulations/{id}/tick, as far as the simulation row goes: the last
\* stage is update_simulation with SimulationUpdate(current_tick=new_tick).
AdvanceTickRow(s) ==
    /\ fn.op = "update_simulation"
    /\ fn.calls < MaxStatusCalls
    /\ sims[s].exists
    /\ LET simulation_update == [current_tick |-> new_tick(sims[s].current_tick)]
       IN  /\ sims' = [sims EXCEPT ![s] = update_simulation(@, simulation_update)]
           /\ fn' = [fn EXCEPT !.calls = @ + 1, !.sim = s, !.update = simulation_update,
                               !.raised = FALSE]
    /\ UNCHANGED <<agents, events, metrics, req, ops, handled, applied>>

StatusNext ==
    \/ \E s \in SimIds : CreateSimulationRow(s)
    \/ \E s \in SimIds, st \in StatusBodies : update_simulation_status_endpoint(s, st)
    \/ \E s \in SimIds : AdvanceTickRow(s)

StatusSpec == StatusInit /\ [][StatusNext]_vars

\* ================================================================ claims
PipelineOrder == <<"events", "metrics_pre", "agents", "metrics_post", "incr">>

IsPrefix(s, t) == Len(s) <= Len(t) /\ s = SubSeq(t, 1, Len(s))

LastDecision(a) ==
    agents[a].short_term_memory.last_decisions[Len(agents[a].short_term_memory.last_decisions)]

\* The persisted decision log of agent a ends with an entry of tick t.
UpdatedAt(a, t) ==
    /\ agents[a].short_term_memory.last_decisions # <<>>
    /\ LastDecision(a).tick = t

\* C1: an advance_tick call on a simulation at tick N that no other call
\* overlaps returns the simulation with current_tick = N + 1, whatever the
\* oracle calls answered and whether or not an event was eligible; only a
\* failed database operation keeps a call from returning.
C1_ReturnsNextTick ==
    /\ req.pc = "returned" => /\ req.result = req.current_tick + 1
                              /\ sims[req.sim].current_tick = req.current_tick + 1
    /\ req.pc = "raised" => req.failed # {}

\* C1 witness: a call returned N + 1 with no eligible event and every agent of
\* the simulation holding the fallback decision of tick N.
C1_Witness ==
    /\ req.pc = "returned"
    /\ req.result = req.current_tick + 1
    /\ req.eligible = {}
    /\ AgentIdsOfSet(req.sim) # {}
    /\ \A a \in AgentIdsOfSet(req.sim) :
          UpdatedAt(a, req.current_tick) /\ LastDecision(a).decision = FallbackDecision

\* C2: the stages of one advance_tick call run in the order event processing,
\* metric snapshot, agent updates, metric snapshot, tick increment; no agent
\* is updated while an event is still being handled, and the tick counter
\* changes only after the second metric stage.
C2_StageOrder ==
    /\ IsPrefix(req.stages, PipelineOrder)
    /\ req.pc \in {"trigger", "handle"} => req.stages = <<"events">> /\ req.dirty = {}
    /\ ("agents" \in Range(req.stages) /\ "events" \notin req.failed) =>
           \A e \in Range(req.pending_events) : events[e].status \in {"processed", "failed"}
    /\ req.dirty # {} => "metrics_pre" \in Range(req.stages)
    /\ (req.pc # "idle" /\ sims[req.sim].current_tick # req.current_tick) =>
           req.stages = PipelineOrder /\ req.pc = "returned"

\* C2 witness: a call that handled two events, updated the agents, stored both
\* snapshots of its tick and wrote the tick.
C2_Witness ==
    /\ req.pc = "returned"
    /\ Len(req.pending_events) = 2
    /\ Cardinality(SnapshotsOf(req.sim, req.current_tick)) = 2
    /\ \A a \in AgentIdsOfSet(req.sim) : UpdatedAt(a, req.current_tick)
    /\ sims[req.sim].current_tick = req.current_tick + 1

\* C3: when one of the first four stages fails with an exception, a failed
\* commit inside the stage included, every later stage still runs and the
\* tick counter is incremented and persisted.
C3_StageFailureIsolated ==
    (Quiet /\ req.failed # {} /\ "incr" \notin req.failed) =>
        /\ req.stages = PipelineOrder
        /\ req.pc = "returned"
        /\ sims[req.sim].current_tick = req.current_tick + 1

\* C4: over any sequence of non-overlapping operations current_tick is a
\* non-negative integer that never decreases, it changes only when an
\* advance_tick call completes, and each completed call raises it by 1.
C4_TickMonotonic ==
    /\ [](\A s \in SimIds : sims[s].current_tick >= 0)
    /\ [][\A s \in SimIds :
            /\ sims'[s].current_tick >= sims[s].current_tick
            /\ sims'[s].current_tick # sims[s].current_tick =>
                  req.pc = "incr" /\ req'.pc = "returned" /\ s = req.sim
            /\ (req.pc = "incr" /\ req'.pc = "returned" /\ s = req.sim) =>
                  sims'[s].current_tick = sims[s].current_tick + 1]_vars

\* C4 witness: two completed advances and another operation on the simulation.
C4_Witness ==
    \E s \in SimIds : sims[s].current_tick = 2 /\ ops.count = 1 /\ req.pc = "returned"

\* C5: when the event stage of tick T returns, every event that was pending
\* with target_tick = T at its start has been selected and is no longer
\* pending, however many there are.
C5_AllEligibleSelected ==
    (req.pc \in {"metrics_pre", "agents", "metrics_post", "incr", "returned", "raised"}
        /\ "events" \notin req.failed) =>
        \A e \in req.eligible : e \in Range(req.pending_events) /\ events[e].status # "pending"

C7_StatusTransitions ==
    [][\A e \in DOMAIN events :
          \/ events'[e].status = events[e].status
          \/ <<events[e].status, events'[e].status>> \in
                 { <<"pending", "triggered">>, <<"triggered", "processed">>,
                   <<"triggered", "failed">>, <<"pending", "failed">> }]_vars

\* C7 witness: after two ticks one event is failed and another processed.
C7_Witness ==
    /\ sims[1].current_tick = 2
    /\ \E e \in DOMAIN events : events[e].status = "failed"
    /\ \E e \in DOMAIN events : events[e].status = "processed"

\* The event the loop of process_events_for_tick is at.
CurrentEvent == req.pending_events[req.idx]

\* The handler of the current event runs and no database operation fails.
HandlesUBI ==
    /\ req.pc = "handle"
    /\ ops' = ops
    /\ events[CurrentEvent].event_type = "ubi"

IncomeOf(row) ==
    IF row.demographics.isdict /\ row.demographics.hasIncome THEN row.demographics.income ELSE 0

\* C8: processing a UBI event with a valid amount_per_agent = a (a >= 0) when
\* persistence succeeds adds exactly a to the income of every agent of the
\* simulation (no income counts as 0), changes no agent of another
\* simulation and leaves the event processed.
C8_UBIPaysEveryAgent ==
    [][(/\ HandlesUBI
        /\ events[CurrentEvent].parameters.amount_per_agent.kind = "num"
        /\ events[CurrentEvent].parameters.amount_per_agent.val >= 0
        /\ events[CurrentEvent].parameters.duration_ticks = Missing) =>
          /\ events'[CurrentEvent].status = "processed"
          /\ \A a \in DOMAIN agents :
                IF agents[a].simulation_id = req.sim
                THEN /\ agents'[a].demographics.isdict
                     /\ agents'[a].demographics.hasIncome
                     /\ agents'[a].demographics.income =
                            IncomeOf(agents[a]) + events[CurrentEvent].parameters.amount_per_agent.val
                ELSE agents'[a] = agents[a]]_vars

\* The amount of a parameter mapping is negative, missing or not a number.
BadAmount(p) ==
    \/ p.amount_per_agent.kind \in {"missing", "text"}
    \/ p.amount_per_agent.kind \in {"num", "numstr"} /\ p.amount_per_agent.val < 0

\* C9: processing a UBI event whose amount_per_agent is negative, missing or
\* not a number changes no agent and never marks the event processed, and
\* when the status write succeeds the event is failed.
C9_InvalidUBIFails ==
    [][(/\ req.pc = "handle"
        /\ events[CurrentEvent].event_type = "ubi"
        /\ BadAmount(events[CurrentEvent].parameters)) =>
          /\ agents' = agents
          /\ events'[CurrentEvent].status # "processed"
          /\ ops' = ops => events'[CurrentEvent].status = "failed"]_vars

\* C9 witness: the event with amount -5 is failed and the incomes 0 and 50 of
\* the simulation's agents are as seeded.
C9_Witness ==
    /\ req.pc = "returned"
    /\ \E e \in DOMAIN events :
          /\ events[e].event_type = "ubi"
          /\ events[e].parameters.amount_per_agent = Num(-5)
          /\ events[e].status = "failed"
          /\ events[e].simulation_id = req.sim
          /\ e \in Range(req.pending_events)
    /\ Len(agents) = 2
    /\ IncomeOf(agents[1]) = 0 /\ IncomeOf(agents[2]) = 50

\* C10: an eligible event whose event_type is not "ubi" ends the event stage
\* with status failed.
C10_UnknownTypeFails ==
    (req.pc \in {"metrics_pre", "agents", "metrics_post", "incr", "returned", "raised"}
        /\ "events" \notin req.failed) =>
        \A e \in req.eligible : events[e].event_type # "ubi" => events[e].status = "failed"

\* The persisted incomes of the agents of simulation s, in row order.
IncomesOf(s) ==
    LET ids == AgentIdsOf(agents, s) IN [k \in 1..Len(ids) |-> IncomeOf(agents[ids[k]])]

\* C11: the income changes of a UBI event and its processed status become
\* persistent together or not at all: a handling step that does not leave the
\* event processed changes no agent row, and a step in which a database
\* operation fails leaves the event unprocessed and every agent row as it was.
C11_UBIAtomic ==
    [][req.pc = "handle" =>
          /\ events'[CurrentEvent].status # "processed" => agents' = agents
          /\ ops' # ops => events'[CurrentEvent].status # "processed" /\ agents' = agents]_vars

\* C11 witness: the commit of the 100 UBI event on incomes 0, 50, 200 failed;
\* the call went on, committed the agents' decisions and returned, and the
\* incomes are still 0, 50, 200 with the event not processed.
C11_Witness ==
    /\ req.pc = "returned"
    /\ "events" \in req.failed
    /\ IncomesOf(1) = <<0, 50, 200>>
    /\ \A a \in AgentIdsOfSet(1) : UpdatedAt(a, req.current_tick)
    /\ \E e \in Range(req.pending_events) :
          /\ events[e].status = "triggered"
          /\ events[e].parameters = UBI100

\* C12: a UBI event is marked processed only when its amount has been added
\* to the income of every agent of its simulation, never when only some of
\* the agents received it.
C12_ProcessedMeansAllPaid ==
    [][\A e \in DOMAIN events :
          (/\ events[e].event_type = "ubi"
           /\ events[e].status # "processed"
           /\ events'[e].status = "processed") =>
              \A a \in DOMAIN agents :
                  agents[a].simulation_id = events[e].simulation_id =>
                      /\ agents'[a].demographics.isdict
                      /\ IncomeOf(agents'[a]) =
                             IncomeOf(agents[a]) + events[e].parameters.amount_per_agent.val]_vars

\* How many times the income effect of event e has been committed.
TimesApplied(e) == Cardinality({i \in DOMAIN applied : applied[i] = e})

\* C13: an event's triggered status is persisted before its handler changes
\* any agent, and over a call that crashes in the event stage and the calls
\* that follow it at the same tick the income effect of each event is
\* applied at most once.
C13_AppliedAtMostOnce ==
    /\ [](\A e \in DOMAIN events : TimesApplied(e) <= 1)
    /\ [][(req.pc = "handle" /\ agents' # agents) =>
              /\ events[CurrentEvent].status = "triggered"
              /\ CurrentEvent \in handled
              /\ TimesApplied(CurrentEvent) = 0]_vars

\* C13 witness: a call crashed in the event stage after the 100 UBI event was
\* paid; the call that followed at the same tick returned, and the incomes
\* are 100, 150, 300: paid once.
C13_Witness ==
    /\ ops.crashes = 1
    /\ ops.requests = 2
    /\ req.pc = "returned"
    /\ req.current_tick = 0
    /\ applied = <<1>>
    /\ events[1].status = "processed"
    /\ events[1].parameters = UBI100
    /\ IncomesOf(1) = <<100, 150, 300>>

\* C14: after any number of tick advances the decision log of every agent
\* holds at most the cap of 10 entries.
C14_DecisionLogCapped ==
    \A a \in DOMAIN agents :
        Len(agents[a].short_term_memory.last_decisions) <= MaxStmDecisions

\* The decision log of agent a as the session of the request holds it.
SessionLog(r, a) == r.session[a].short_term_memory.last_decisions

\* The step is a pass of the agent loop over agent a that ran to its end.
PassOver(a) ==
    /\ req.pc = "agent_loop"
    /\ req'.pc # "crashed"
    /\ a = req.agent_ids[req.aidx]
    /\ a \notin req'.raised

\* C15: for every kind of oracle failure (client not configured, network
\* error, blocked or empty response, no JSON object, JSON parse failure, schema
\* validation failure) the agent update raises nothing to the caller of the
\* agent loop and uses the same fallback decision, action "observe_failed_llm"
\* with sentiment_shift 0, empty policy_opinion_shift and no
\* spending_ratio_shift, and that fallback is appended to the decision log.
C15_OracleFailureFallsBack ==
    /\ [](\A o \in OracleFailures : OracleDecision(o) = FallbackDecision)
    /\ [][\A a \in DOMAIN agents :
             (PassOver(a) /\ a \in req'.llm_failed) =>
                 /\ req'.pc \in {"agent_loop", StageAfter("agents")}
                 /\ req'.failed = req.failed
                 /\ SessionLog(req', a) =
                        Append(SessionLog(req, a),
                               [tick |-> sims[req.sim].current_tick,
                                decision |-> [action |-> "observe_failed_llm",
                                              dialogue |-> Str("LLM processing error."),
                                              sentiment_shift |-> 0,
                                              policy_opinion_shift |-> <<>>,
                                              spending_ratio_shift |-> Null]])
                 /\ req'.session[a].beliefs.sentiment =
                        (IF req.session[a].beliefs.hasSentiment
                         THEN req.session[a].beliefs.sentiment ELSE DefaultSentiment)]_vars

\* A failed oracle call left the fallback as the last entry of a flushed log.
C15_Witness ==
    /\ req.pc = "returned"
    /\ \E a \in req.llm_failed :
          /\ agents[a].simulation_id = req.sim
          /\ UpdatedAt(a, req.current_tick)
          /\ LastDecision(a).decision.action = "observe_failed_llm"

\* The sentiment an agent row holds, 0.5 when it has none.
SentimentOf(row) ==
    IF row.beliefs.isdict /\ row.beliefs.hasSentiment THEN row.beliefs.sentiment
    ELSE DefaultSentiment

\* The session row of agent a carries one more log entry than the persisted
\* row, of the tick of the request, and the sentiment moved by its shift.
ProcessedInSession(a) ==
    \E d \in DecisionInputs :
        /\ SessionLog(req, a) =
               Append(agents[a].short_term_memory.last_decisions,
                      [tick |-> req.current_tick, decision |-> d])
        /\ req.session[a].beliefs.isdict
        /\ req.session[a].beliefs.hasSentiment
        /\ req.session[a].beliefs.sentiment = SentimentOf(agents[a]) + d.sentiment_shift

\* C16: if processing one agent raises an exception at any step of its
\* update, every other agent of the simulation is still processed in the same
\* tick and receives its decision-log entry and its sentiment update.
C16_OtherAgentsStillProcessed ==
    (req.pc = "metrics_post" /\ req.agent_ids # <<>>) =>
        /\ Range(req.agent_ids) = AgentIdsOfSet(req.sim)
        /\ \A a \in AgentIdsOfSet(req.sim) \ req.raised : ProcessedInSession(a)

\* The agent loop ended after the update of its first agent raised and two
\* more agents followed.
C16_Witness ==
    /\ req.pc = "metrics_post"
    /\ Len(req.agent_ids) = 3
    /\ req.raised = {req.agent_ids[1]}
    /\ \A i \in 2..3 : ProcessedInSession(req.agent_ids[i])

\* The entries of tick t in the persisted decision log of agent a.
EntriesAt(rows, a, t) ==
    {i \in DOMAIN rows[a].short_term_memory.last_decisions :
         rows[a].short_term_memory.last_decisions[i].tick = t}

\* The call that is returning ran on a simulation with at least one agent and
\* no event, every oracle call of it failed and no agent update raised; no
\* earlier attempt had left a snapshot of its tick.
AllOraclesFailed(r) ==
    /\ r.agent_ids # <<>>
    /\ \A e \in DOMAIN events : events[e].simulation_id # r.sim
    /\ r.llm_failed = Range(r.agent_ids)
    /\ r.raised = {}
    /\ r.snapshots_before = 0

C18_ScalarsInUnitRange ==
    \A a \in DOMAIN agents :
        (agents[a].beliefs.isdict /\ agents[a].beliefs.hasSentiment) =>
            /\ 0 <= agents[a].beliefs.sentiment
            /\ agents[a].beliefs.sentiment <= ScalarMax

\* C19: add_long_term_memory with an embedding whose length equals the fixed
\* embedding dimension persists exactly one new memory row holding that text
\* and vector; with an embedding of any other length it raises an error and
\* the set of persisted memory rows is unchanged.
C19_MemoryDimensionChecked ==
    [][fn'.calls = fn.calls + 1 =>
          /\ (fn'.memory_embedding.dim = 768 /\ fn'.fault = "none") =>
                /\ ~fn'.raised
                /\ Len(fn'.memories) = Len(fn.memories) + 1
                /\ SubSeq(fn'.memories, 1, Len(fn.memories)) = fn.memories
                /\ fn'.memories[Len(fn'.memories)].memory_text = fn'.memory_text
                /\ fn'.memories[Len(fn'.memories)].memory_embedding = fn'.memory_embedding
                /\ fn'.memories[Len(fn'.memories)].agent_id = fn'.agent_id
          /\ fn'.memory_embedding.dim # 768 =>
                /\ fn'.raised
                /\ fn'.memories = fn.memories]_vars

\* The second call, with a vector of 768 numbers, stored its row after the
\* first call had stored nothing.
C19_Witness ==
    /\ fn.op = "add_long_term_memory"
    /\ fn.calls = 2
    /\ Len(fn.memories) = 1
    /\ ~fn.raised
    /\ fn.memories[1].memory_embedding.dim = 768
    /\ fn.memories[1].memory_text = fn.memory_text

\* The sequence with its first value moved to the end, and with its first two
\* values exchanged: every reordering is a chain of these two.
Rotated(xs) == IF xs = <<>> THEN xs ELSE Append(Tail(xs), Head(xs))
Swapped(xs) == IF Len(xs) < 2 THEN xs ELSE <<xs[2], xs[1]>> \o SubSeq(xs, 3, Len(xs))

\* C20: calculate_gini returns undefined for an empty income sequence; for
\* every non-empty sequence of non-negative incomes its result is at least 0
\* and less than 1, is 0 when all incomes are equal, and does not depend on
\* the order of the input.
C20_GiniProperties ==
    (fn.op = "calculate_gini" /\ fn.called) =>
        /\ fn.incomes = <<>> => fn.result.none
        /\ fn.incomes # <<>> =>
              /\ ~fn.result.none
              /\ ~fn.result.num.neg
              /\ FLess(fn.result.num, fn.result.den)
              /\ (\A i, j \in DOMAIN fn.incomes : fn.incomes[i] = fn.incomes[j]) =>
                     fn.result.num.m = <<>>
              /\ fn.result = calculate_gini(Rotated(fn.incomes))
              /\ fn.result = calculate_gini(Swapped(fn.incomes))

\* C21: calculate_belief_variance returns 0.0, not undefined, for every
\* non-empty set of agents none of which carries a valid ideology vector
\* (beliefs not a mapping, vector key absent, or vector not a list), and
\* returns undefined for the empty agent set.
C21_VarianceWithoutVectors ==
    (fn.op = "calculate_belief_variance" /\ fn.called) =>
        /\ fn.beliefs = <<>> => fn.result.none
        /\ (/\ fn.beliefs # <<>>
            /\ \A i \in DOMAIN fn.beliefs :
                  \/ ~fn.beliefs[i].isdict
                  \/ ~fn.beliefs[i].hasVector
                  \/ ~fn.beliefs[i].vectorIsList) =>
               /\ ~fn.result.none
               /\ fn.result.num = 0

\* A call over three agents, one of each kind without a valid vector,
\* returned 0.0.
C21_Witness ==
    /\ fn.op = "calculate_belief_variance"
    /\ fn.called
    /\ Len(fn.beliefs) = 3
    /\ ~fn.beliefs[1].isdict
    /\ fn.beliefs[2].isdict /\ ~fn.beliefs[2].hasVector
    /\ fn.beliefs[3].hasVector /\ ~fn.beliefs[3].vectorIsList
    /\ ~fn.result.none
    /\ fn.result.num = 0

\* C22: a failure while handling one eligible event (an exception raised by
\* its parameter validation, its agent loading or its status update) does not
\* prevent the other events eligible at the same tick from being handled in
\* that event stage: each of them still leaves the pending status.
C22_EventFailureIsolated ==
    [][(/\ req.pc \in {"trigger", "handle"}
        /\ req'.pc \notin {"trigger", "handle", "crashed"}
        /\ "events" \in req'.failed) =>
           \A i \in DOMAIN req.pending_events :
               i # req.idx => events'[req.pending_events[i]].status # "pending"]_vars

\* Both overlapping executions have returned, and both had selected event e
\* at the same tick before either marked it triggered.
BothHandled(e) ==
    /\ \A p \in Procs : req[p].pc = "returned" /\ e \in Range(req[p].pending_events)
    /\ req[1].current_tick = req[2].current_tick

\* C23 as stated: when two advance_tick executions for the same simulation
\* overlap (both read tick N before either marks events triggered), an event
\* eligible at tick N is processed by both, so its UBI amount is added to
\* agent incomes twice.
C23_AmountAddedTwice ==
    \A e \in DOMAIN events :
        BothHandled(e) =>
            /\ TimesApplied(e) = 2
            /\ \A a \in DOMAIN agents :
                  IncomeOf(agents[a]) =
                      IncomeOf(RaceAgents[a]) + 2 * events[e].parameters.amount_per_agent.val

\* C23 amended: the event is processed by both executions.  The execution
\* that commits its payment second writes the incomes it loaded plus the
\* amount: the incomes end with the amount added twice when it loaded the
\* agents after the first payment was committed, and with the amount added
\* once when it loaded them before.
C23_SecondPaymentOverwrites ==
    \A e \in DOMAIN events :
        BothHandled(e) =>
            /\ TimesApplied(e) = 2
            /\ \A p \in Procs :
                  req[p].order = 2 =>
                      /\ req[p].seen \in {0, 1}
                      /\ \A a \in DOMAIN agents :
                            IncomeOf(agents[a]) =
                                IncomeOf(RaceAgents[a])
                                + (1 + req[p].seen) * events[e].parameters.amount_per_agent.val

\* Both executions paid the event, the second from incomes loaded before the
\* first payment was committed: the amount is in the incomes once.
C23_Witness ==
    \E e \in DOMAIN events :
        /\ BothHandled(e)
        /\ TimesApplied(e) = 2
        /\ \E p \in Procs : req[p].order = 2 /\ req[p].seen = 0
        /\ \A a \in DOMAIN agents :
              IncomeOf(agents[a]) =
                  IncomeOf(RaceAgents[a]) + events[e].parameters.amount_per_agent.val

\* Both executions read the same tick at their start and both have returned.
BothReturnedFrom(t) ==
    \A p \in Procs : req[p].pc = "returned" /\ req[p].current_tick = t

\* C24 as stated: when two advance_tick executions for the same simulation
\* overlap, both having read tick N at their start, the counter is
\* incremented twice: after both have finished, current_tick is N + 2.
C24_TickIncrementedTwice ==
    \A t \in 0..MaxRequests :
        BothReturnedFrom(t) => sims[RaceSim].current_tick = t + 2

\* C24 amended: both executions write N + 1, the tick they read at their
\* start plus one: after both have finished current_tick is N + 1 and both
\* have returned N + 1.
C24_TickWrittenTwiceSame ==
    \A t \in 0..MaxRequests :
        BothReturnedFrom(t) =>
            /\ sims[RaceSim].current_tick = t + 1
            /\ \A p \in Procs : req[p].result = t + 1

\* Both executions started at tick 0 and have returned; the tick is 1.
C24_Witness ==
    /\ BothReturnedFrom(0)
    /\ sims[RaceSim].current_tick = 1
    /\ TimesApplied(1) = 2

\* C25: each agent update in a tick at current_tick = N appends exactly one
\* entry to the agent's decision log, of the form {tick: N, decision: d},
\* where d is the decision used for that agent (the fallback exactly when the
\* oracle path failed, and the one whose shift moved the sentiment); the
\* entries the log had are neither changed nor reordered, and no other agent's
\* log changes in the pass.
C25_OneEntryAppended ==
    [][\A a \in DOMAIN agents :
          PassOver(a) =>
              \E d \in DecisionInputs :
                  /\ SessionLog(req', a) =
                         Append(SessionLog(req, a),
                                [tick |-> req.current_tick, decision |-> d])
                  /\ (d = FallbackDecision) <=> (a \in req'.llm_failed)
                  /\ SentimentOf(req'.session[a]) =
                         SentimentOf(req.session[a]) + d.sentiment_shift
                  /\ \A b \in DOMAIN agents \ {a} :
                         SessionLog(req', b) = SessionLog(req, b)]_vars

\* An agent whose log held MaxStmDecisions entries was updated with a parsed
\* decision in the tick after them.
C25_Witness ==
    /\ req.pc \in {"agent_loop", "metrics_post"}
    /\ req.current_tick = MaxStmDecisions
    /\ \E a \in DOMAIN agents \cap DOMAIN req.session :
          /\ Len(agents[a].short_term_memory.last_decisions) = MaxStmDecisions
          /\ SessionLog(req, a) =
                 Append(agents[a].short_term_memory.last_decisions,
                        [tick |-> MaxStmDecisions, decision |-> LLMDecision("observe", 1)])

\* How often the oracle was called for agent a in the request.
OracleCallsFor(a) ==
    Cardinality({i \in DOMAIN req.oracle_calls : req.oracle_calls[i] = a})

\* C26: in one run of the agent update stage the decision oracle is invoked
\* exactly once for each agent of the simulation, never zero times and never
\* more than once, whether the invocation succeeds or fails: while the loop
\* runs the agents it has passed have one call each and the others none, and
\* when the stage has returned every agent of the simulation has exactly one.
C26_OneOracleCallPerAgent ==
    /\ req.pc = "agent_loop" =>
           \A i \in DOMAIN req.agent_ids :
               OracleCallsFor(req.agent_ids[i]) = (IF i < req.aidx THEN 1 ELSE 0)
    /\ (req.pc = "metrics_post" /\ req.agent_ids # <<>>) =>
           /\ Len(req.oracle_calls) = Cardinality(AgentIdsOfSet(req.sim))
           /\ \A a \in AgentIdsOfSet(req.sim) : OracleCallsFor(a) = 1

\* The stage has returned after three agents, the oracle having failed for
\* some of them and answered for others.
C26_Witness ==
    /\ req.pc = "metrics_post"
    /\ Len(req.agent_ids) = 3
    /\ req.llm_failed # {}
    /\ req.llm_failed # Range(req.agent_ids)
    /\ \A a \in Range(req.agent_ids) : OracleCallsFor(a) = 1

\* C27: an agent update with decision shift s sets beliefs.sentiment to
\* (old sentiment + s) when a sentiment value is present and to (0.5 + s) when
\* it is absent or beliefs is not a mapping; with the fallback decision
\* (s = 0) an existing sentiment value is unchanged.
C27_SentimentShifted ==
    [][\A a \in DOMAIN agents :
          PassOver(a) =>
              LET old == req.session[a].beliefs
                  new == req'.session[a].beliefs
                  log == SessionLog(req', a)
                  s == log[Len(log)].decision.sentiment_shift
              IN  /\ new.isdict /\ new.hasSentiment
                  /\ (old.isdict /\ old.hasSentiment) => new.sentiment = old.sentiment + s
                  /\ (~old.isdict \/ ~old.hasSentiment) => new.sentiment = DefaultSentiment + s
                  /\ (a \in req'.llm_failed /\ old.isdict /\ old.hasSentiment) =>
                         new.sentiment = old.sentiment]_vars

\* The pass over an agent whose stored beliefs value is no mapping has
\* left a mapping with the sentiment 0.5 + 0.1 in the session, while another
\* agent of the run holds an earlier sentiment.
C27_Witness ==
    /\ req.pc \in {"agent_loop", "metrics_post"}
    /\ \E a \in DOMAIN agents \cap DOMAIN req.session :
          /\ ~agents[a].beliefs.isdict
          /\ req.session[a].beliefs.isdict
          /\ req.session[a].beliefs.hasSentiment
          /\ req.session[a].beliefs.sentiment = DefaultSentiment + 1
    /\ \E b \in DOMAIN agents : agents[b].beliefs.isdict /\ agents[b].beliefs.hasSentiment

\* Decisions with a policy_opinion_shift mapping and a spending_ratio_shift.
ShiftingDecisions ==
    { [LLMDecision("support", 1) EXCEPT !.policy_opinion_shift = [ubi |-> 2]],
      [LLMDecision("spend", 0) EXCEPT !.spending_ratio_shift = Num(-1)],
      [LLMDecision("both", -1) EXCEPT !.policy_opinion_shift = [ubi |-> 2],
                                      !.spending_ratio_shift = Num(3)] }

\* The row new differs from the row old in nothing but the decision log and
\* the sentiment of its beliefs (a beliefs value that was no mapping counts
\* as the empty mapping).
OnlyLogAndSentiment(old, new) ==
    /\ new.simulation_id = old.simulation_id
    /\ new.demographics = old.demographics
    /\ new.behavioral_traits = old.behavioral_traits
    /\ \/ new.beliefs = old.beliefs
       \/ [new.beliefs EXCEPT !.hasSentiment = FALSE, !.sentiment = 0] =
              [(IF old.beliefs.isdict THEN old.beliefs ELSE EmptyBeliefs)
                   EXCEPT !.hasSentiment = FALSE, !.sentiment = 0]

\* The step belongs to the agent update stage.
AgentStageStep ==
    /\ req.pc \in {"agents", "agent_loop"}
    /\ req'.pc # "crashed"

\* C28: the agent update stage changes only each agent's decision log and
\* beliefs.sentiment: for any decision, including one with non-empty
\* policy_opinion_shift or a spending_ratio_shift, it leaves the agent's
\* demographics, behavioral traits, ideology vector, policy-support mapping
\* and all other belief fields unchanged, and it changes no event and no tick
\* counter.
C28_AgentStageFrame ==
    /\ [](\A a \in DOMAIN agents : \A d \in ShiftingDecisions \cup DecisionInputs :
             OnlyLogAndSentiment(agents[a], UpdateAgentState(agents[a], 0, d)))
    /\ [][AgentStageStep =>
             /\ events' = events
             /\ sims' = sims
             /\ agents' = agents
             /\ req.pc = "agent_loop" =>
                    \A a \in DOMAIN req.session :
                        OnlyLogAndSentiment(req.session[a], req'.session[a])]_vars

\* A pass has logged a decision with a spending_ratio_shift and a
\* sentiment_shift of 1.5 for an agent whose traits are as seeded.
C28_Witness ==
    /\ req.pc \in {"agent_loop", "metrics_post"}
    /\ \E a \in DOMAIN agents \cap DOMAIN req.session :
          LET log == SessionLog(req, a)
          IN  /\ log # <<>>
              /\ log[Len(log)].tick = req.current_tick
              /\ log[Len(log)].decision.spending_ratio_shift = Num(2)
              /\ req.session[a].behavioral_traits = SeededTraits
              /\ req.session[a].beliefs.others = SeededOtherBeliefs

\* The data of the JSON object of the response that was parsed.
ObjectData == json_loads(fn.object).data

\* The object carries a string action and no policy_opinion_shift member.
PlainDecisionObject ==
    /\ "action" \in DOMAIN ObjectData
    /\ ObjectData["action"].kind = "str"
    /\ "policy_opinion_shift" \notin DOMAIN ObjectData

\* The sentiment_shift of the object lies outside -1.0 .. 1.0.
ShiftOutOfRange ==
    /\ "sentiment_shift" \in DOMAIN ObjectData
    /\ \/ ObjectData["sentiment_shift"].val > ScalarMax
       \/ ObjectData["sentiment_shift"].val < -ScalarMax

\* C29: an oracle response that is a well-formed JSON object but whose
\* sentiment_shift lies outside the bounded range [-1.0, 1.0] fails
\* validation of the decision shape, so the fallback decision is used and the
\* sentiment is not shifted by the out-of-range value; a response that omits
\* sentiment_shift, dialogue, policy_opinion_shift or spending_ratio_shift is
\* accepted with the defaults 0.0, null, empty mapping and null.
C29_OutOfRangeShiftRejected ==
    (fn.op = "parse_structured_decision" /\ fn.called) =>
        /\ (PlainDecisionObject /\ ShiftOutOfRange) =>
               /\ fn.raised
               /\ fn.decision = FallbackDecision
        /\ (PlainDecisionObject /\ ~ShiftOutOfRange) =>
               /\ ~fn.raised
               /\ "sentiment_shift" \notin DOMAIN ObjectData => fn.decision.sentiment_shift = 0
               /\ "dialogue" \notin DOMAIN ObjectData => fn.decision.dialogue = Null
               /\ fn.decision.policy_opinion_shift = <<>>
               /\ "spending_ratio_shift" \notin DOMAIN ObjectData =>
                      fn.decision.spending_ratio_shift = Null

RECURSIVE BalancedEnd(_, _, _)
\* The position of the closing brace that balances the braces opened before
\* position j of the text at the given depth, 0 when there is none.
BalancedEnd(text, j, depth) ==
    IF j > Len(text) THEN 0
    ELSE IF text[j] = Open THEN BalancedEnd(text, j + 1, depth + 1)
    ELSE IF text[j] = Close
         THEN (IF depth = 1 THEN j ELSE BalancedEnd(text, j + 1, depth - 1))
    ELSE BalancedEnd(text, j + 1, depth)

\* The region of the text from its first opening brace to the closing brace
\* that balances it.
BalancedRegion(text) ==
    LET opens == {i \in DOMAIN text : text[i] = Open}
        first == CHOOSE i \in opens : \A k \in opens : i <= k
    IN  IF opens = {} \/ BalancedEnd(text, first + 1, 1) = 0 THEN <<>>
        ELSE SubSeq(text, first, BalancedEnd(text, first + 1, 1))

\* C30: for an oracle response made of optional leading prose or a code
\* fence, then one well-formed decision JSON object, then optional trailing
\* prose, parse_structured_decision extracts the region from the first '{' to
\* the '}' that balances it and returns the decision with exactly the field
\* values of that object, also when the object contains a nested object such
\* as a policy_opinion_shift mapping.
C30_BalancedObjectExtracted ==
    (/\ fn.op = "parse_structured_decision"
     /\ fn.called
     /\ json_loads(fn.object).ok
     /\ model_validate(ObjectData).ok) =>
        /\ BalancedRegion(fn.raw) = fn.object
        /\ re_search(strip_fences(fn.raw)).group = BalancedRegion(fn.raw)
        /\ ~fn.raised
        /\ fn.decision = model_validate(ObjectData).decision

\* C31: whether embedding generation succeeds, returns nothing, or the
\* long-term memory write is rejected, a returned decision is in the agent's
\* stored decision log when the handler of /decide ends, unless the
\* short-term commit itself was made to fail.
DecisionInLog(a, d) ==
    \E i \in DOMAIN agents[a].short_term_memory.last_decisions :
        LET entry == agents[a].short_term_memory.last_decisions[i]
        IN  entry.tick = NoTick /\ entry.decision = d
C31_DecisionLoggedWhateverMemoryDoes ==
    (/\ fn.op = "test_agent_decision"
     /\ fn.calls > 0
     /\ "error" \notin DOMAIN fn.decision
     /\ fn.stm_fault = "none")
        => DecisionInLog(fn.agent_id, fn.decision)

\* The entries of a decision log that carry tick t.
EntriesOfTick(log, t) == {i \in DOMAIN log : log[i].tick = t}

\* The sum of the sentiment shifts of the first n entries of a decision log.
RECURSIVE ShiftsOf(_, _)
ShiftsOf(log, n) ==
    IF n = 0 THEN 0 ELSE ShiftsOf(log, n - 1) + log[n].decision.sentiment_shift

\* The call that has returned follows a call for the same tick that was lost
\* to a crash after its second snapshot, and with it the agent updates, had
\* been committed; nothing else went wrong in either call.
ReturnedAfterCrash ==
    /\ req.pc = "returned"
    /\ ops.crashes = 1
    /\ ops.count = 1
    /\ req.snapshots_before = 2
    /\ req.agent_ids # <<>>

\* C32: when advance_tick at tick N crashes after the agent updates were
\* persisted and before the tick was incremented, and advance_tick is called
\* again, every agent's decision log ends with two entries of tick N and the
\* sentiment carries the shifts of both.
C32_AgentEffectsAppliedTwice ==
    ReturnedAfterCrash =>
        \A a \in Range(req.agent_ids) :
            LET log == agents[a].short_term_memory.last_decisions
                n == Len(log)
            IN  /\ EntriesOfTick(log, req.current_tick) = {n - 1, n}
                /\ n >= 2
                /\ SentimentOf(agents[a]) = DefaultSentiment + ShiftsOf(log, n)
                /\ sims[req.sim].current_tick = req.current_tick + 1

\* Both calls used a decision with the shift 0.1 for an agent that had a
\* sentiment of its own, which has moved by 0.2.
C32_Witness ==
    /\ ReturnedAfterCrash
    /\ \E a \in Range(req.agent_ids) :
          LET log == agents[a].short_term_memory.last_decisions
          IN  /\ Len(log) = MaxStmDecisions + 2
              /\ log[Len(log)].decision.sentiment_shift = 1
              /\ log[Len(log) - 1].decision.sentiment_shift = 1
              /\ SentimentOf(agents[a]) = DefaultSentiment + MaxStmDecisions \div 2 + 2

\* C33: when creating a connection failed during seeding, the batch still
\* ends with every connection that was created without error, before or after
\* the failure, persisted, and the logged count equals the number of persisted
\* connections.
C33_OnlyFailedConnectionSkipped ==
    (/\ fn.op = "create_random_connections"
     /\ fn.pc = "done"
     /\ fn.failures > 0)
        => /\ fn.connections = fn.created
           /\ fn.reported = Len(fn.connections)

\* C34: a valid UBI event applied to an agent whose demographics is no
\* mapping creates the demographics record with income equal to
\* amount_per_agent, so that agent is paid as well.
C34_MissingDemographicsCreated ==
    [][\A e \in DOMAIN events :
          (/\ events[e].event_type = "ubi"
           /\ events[e].status # "processed"
           /\ events'[e].status = "processed") =>
              \A a \in DOMAIN agents :
                  (/\ agents[a].simulation_id = events[e].simulation_id
                   /\ ~agents[a].demographics.isdict) =>
                      /\ agents'[a].demographics.isdict
                      /\ agents'[a].demographics.hasIncome
                      /\ agents'[a].demographics.income =
                             events[e].parameters.amount_per_agent.val]_vars

\* C35: whatever create, status-update and advance_tick operations have
\* run, the status of a simulation is one of initialized, running, stopped and
\* completed, and a status update that carries another value or none leaves the
\* stored status as it was.
C35_StatusAlwaysNamed ==
    [][/\ \A s \in SimIds : sims'[s].exists => sims'[s].status \in NamedStatuses
       /\ \A s \in SimIds :
              (/\ sims[s].exists
               /\ fn'.calls = fn.calls + 1
               /\ fn'.sim = s
               /\ "status" \in DOMAIN fn'.update
               /\ fn'.update.status \notin NamedStatuses) =>
                  sims'[s].status = sims[s].status]_vars

\* The call has passed both metric stages and each stored a snapshot of the
\* tick of the call.
TwoSnapshotsStored ==
    /\ req.pc \in {"incr", "returned", "raised"}
    /\ Cardinality(SnapshotsOf(req.sim, req.current_tick)) = req.snapshots_before + 2

ProcessedAgents(r) == Range(r.agent_ids) \ r.raised

Overdue(evs, ss, e) ==
    /\ evs[e].status = "pending"
    /\ evs[e].target_tick # NoTick
    /\ evs[e].target_tick < ss[evs[e].simulation_id].current_tick

C39_RaisedAgentUnchanged ==
    [][\A a \in DOMAIN agents :
          (~Quiet /\ a \in req.raised) =>
              /\ agents'[a].short_term_memory = agents[a].short_term_memory
              /\ agents'[a].beliefs = agents[a].beliefs]_vars

====
